---- MODULE Spec2Model ----
(***************************************************************************)
(* Capability / extension requirement resolution of the SPIR-V backend.    *)
(*                                                                         *)
(*  - SPIRVEnums.h: the enum metadata tables (DEF_Capability, ...).        *)
(*  - SPIRVSubtarget.cpp: the target environment profile (per-capability   *)
(*    Has flags, availableCaps, availableExtensions, derived predicates).  *)
(*  - SPIRVAddRequirementsPass.cpp: the per-function driver                *)
(*    (runOnMachineFunction) and the instruction mapper                    *)
(*    (addInstrRequirements and its helpers).                              *)
(*  - SPIRVRequirementHandler and the get<Enum>Requirements functions are  *)
(*    defined outside these three files; they are modelled from            *)
(*    sections 3, 4.1 and 4.2 of the specification.                        *)
(***************************************************************************)
EXTENDS Integers, Sequences, FiniteSets, TLC

VARIABLES
  ST,          \* the SPIRVSubtarget (target environment profile)
  MF,          \* unit -> machine function: sequence of blocks of instructions
  MF0,         \* unit -> the machine function as handed to the pass
  reqHandler,  \* unit -> SPIRVRequirementHandler [caps, exts, err]
  pc,          \* unit -> position inside runOnMachineFunction
  scanned,     \* unit -> number of instructions fed to addInstrRequirements
  emitted,     \* unit -> number of accumulator entries emitted so far
  enableCall   \* the enableFeatureCapability call made on ST, if any

vars == <<ST, MF, MF0, reqHandler, pc, scanned, emitted, enableCall>>

(***************************************************************************)
(* Generic sequence helpers.                                               *)
(***************************************************************************)
Range(s) == {s[i] : i \in 1..Len(s)}

Contains(s, x) == \E i \in 1..Len(s) : s[i] = x

NoDup(s) == \A i, j \in 1..Len(s) : s[i] = s[j] => i = j

IsPrefix(s, t) == Len(s) <= Len(t) /\ SubSeq(t, 1, Len(s)) = s

RECURSIVE Flatten(_)
Flatten(ss) == IF ss = <<>> THEN <<>> ELSE Head(ss) \o Flatten(Tail(ss))

(***************************************************************************)
(* Enum metadata tables.                                                   *)
(***************************************************************************)
\* Capability: SPIRVEnums.h lines 137-291, one record per X(...) entry in table order.
DEF_Capability ==
  << [var |-> "Matrix", val |-> 0, caps |-> <<>>,
      exts |-> <<>>, minVer |-> 0, maxVer |-> 0],
     [var |-> "Shader", val |-> 1, caps |-> <<"Matrix">>,
      exts |-> <<>>, minVer |-> 0, maxVer |-> 0],
     [var |-> "Geometry", val |-> 2, caps |-> <<"Shader">>,
      exts |-> <<>>, minVer |-> 0, maxVer |-> 0],
     [var |-> "Tessellation", val |-> 3, caps |-> <<"Shader">>,
      exts |-> <<>>, minVer |-> 0, maxVer |-> 0],
     [var |-> "Addresses", val |-> 4, caps |-> <<>>,
      exts |-> <<>>, minVer |-> 0, maxVer |-> 0],
     [var |-> "Linkage", val |-> 5, caps |-> <<>>,
      exts |-> <<>>, minVer |-> 0, maxVer |-> 0],
     [var |-> "Kernel", val |-> 6, caps |-> <<>>,
      exts |-> <<>>, minVer |-> 0, maxVer |-> 0],
     [var |-> "Vector16", val |-> 7, caps |-> <<"Kernel">>,
      exts |-> <<>>, minVer |-> 0, maxVer |-> 0],
     [var |-> "Float16Buffer", val |-> 8, caps |-> <<"Kernel">>,
      exts |-> <<>>, minVer |-> 0, maxVer |-> 0],
     [var |-> "Float16", val |-> 9, caps |-> <<>>,
      exts |-> <<>>, minVer |-> 0, maxVer |-> 0],
     [var |-> "Float64", val |-> 10, caps |-> <<>>,
      exts |-> <<>>, minVer |-> 0, maxVer |-> 0],
     [var |-> "Int64", val |-> 11, caps |-> <<>>,
      exts |-> <<>>, minVer |-> 0, maxVer |-> 0],
     [var |-> "Int64Atomics", val |-> 12, caps |-> <<"Int64">>,
      exts |-> <<>>, minVer |-> 0, maxVer |-> 0],
     [var |-> "ImageBasic", val |-> 13, caps |-> <<"Kernel">>,
      exts |-> <<>>, minVer |-> 0, maxVer |-> 0],
     [var |-> "ImageReadWrite", val |-> 14, caps |-> <<"ImageBasic">>,
      exts |-> <<>>, minVer |-> 0, maxVer |-> 0],
     [var |-> "ImageMipmap", val |-> 15, caps |-> <<"ImageBasic">>,
      exts |-> <<>>, minVer |-> 0, maxVer |-> 0],
     [var |-> "Pipes", val |-> 17, caps |-> <<"Kernel">>,
      exts |-> <<>>, minVer |-> 0, maxVer |-> 0],
     [var |-> "Groups", val |-> 18, caps |-> <<>>,
      exts |-> <<>>, minVer |-> 0, maxVer |-> 0],
     [var |-> "DeviceEnqueue", val |-> 19, caps |-> <<>>,
      exts |-> <<>>, minVer |-> 0, maxVer |-> 0],
     [var |-> "LiteralSampler", val |-> 20, caps |-> <<"Kernel">>,
      exts |-> <<>>, minVer |-> 0, maxVer |-> 0],
     [var |-> "AtomicStorage", val |-> 21, caps |-> <<"Shader">>,
      exts |-> <<>>, minVer |-> 0, maxVer |-> 0],
     [var |-> "Int16", val |-> 22, caps |-> <<>>,
      exts |-> <<>>, minVer |-> 0, maxVer |-> 0],
     [var |-> "TessellationPointSize", val |-> 23, caps |-> <<"Tessellation">>,
      exts |-> <<>>, minVer |-> 0, maxVer |-> 0],
     [var |-> "GeometryPointSize", val |-> 24, caps |-> <<"Geometry">>,
      exts |-> <<>>, minVer |-> 0, maxVer |-> 0],
     [var |-> "ImageGatherExtended", val |-> 25, caps |-> <<"Shader">>,
      exts |-> <<>>, minVer |-> 0, maxVer |-> 0],
     [var |-> "StorageImageMultisample", val |-> 27, caps |-> <<"Shader">>,
      exts |-> <<>>, minVer |-> 0, maxVer |-> 0],
     [var |-> "UniformBufferArrayDynamicIndexing", val |-> 28, caps |-> <<"Shader">>,
      exts |-> <<>>, minVer |-> 0, maxVer |-> 0],
     [var |-> "SampledImageArrayDymnamicIndexing", val |-> 29, caps |-> <<"Shader">>,
      exts |-> <<>>, minVer |-> 0, maxVer |-> 0],
     [var |-> "ClipDistance", val |-> 32, caps |-> <<"Shader">>,
      exts |-> <<>>, minVer |-> 0, maxVer |-> 0],
     [var |-> "CullDistance", val |-> 33, caps |-> <<"Shader">>,
      exts |-> <<>>, minVer |-> 0, maxVer |-> 0],
     [var |-> "ImageCubeArray", val |-> 34, caps |-> <<"SampledCubeArray">>,
      exts |-> <<>>, minVer |-> 0, maxVer |-> 0],
     [var |-> "SampleRateShading", val |-> 35, caps |-> <<"Shader">>,
      exts |-> <<>>, minVer |-> 0, maxVer |-> 0],
     [var |-> "ImageRect", val |-> 36, caps |-> <<"SampledRect">>,
      exts |-> <<>>, minVer |-> 0, maxVer |-> 0],
     [var |-> "SampledRect", val |-> 37, caps |-> <<"Shader">>,
      exts |-> <<>>, minVer |-> 0, maxVer |-> 0],
     [var |-> "GenericPointer", val |-> 38, caps |-> <<"Addresses">>,
      exts |-> <<>>, minVer |-> 0, maxVer |-> 0],
     [var |-> "Int8", val |-> 39, caps |-> <<>>,
      exts |-> <<>>, minVer |-> 0, maxVer |-> 0],
     [var |-> "InputAttachment", val |-> 40, caps |-> <<"Shader">>,
      exts |-> <<>>, minVer |-> 0, maxVer |-> 0],
     [var |-> "SparseResidency", val |-> 41, caps |-> <<"Shader">>,
      exts |-> <<>>, minVer |-> 0, maxVer |-> 0],
     [var |-> "MinLod", val |-> 42, caps |-> <<"Shader">>,
      exts |-> <<>>, minVer |-> 0, maxVer |-> 0],
     [var |-> "Sampled1D", val |-> 43, caps |-> <<>>,
      exts |-> <<>>, minVer |-> 0, maxVer |-> 0],
     [var |-> "Image1D", val |-> 44, caps |-> <<"Sampled1D">>,
      exts |-> <<>>, minVer |-> 0, maxVer |-> 0],
     [var |-> "SampledCubeArray", val |-> 45, caps |-> <<"Shader">>,
      exts |-> <<>>, minVer |-> 0, maxVer |-> 0],
     [var |-> "SampledBuffer", val |-> 46, caps |-> <<>>,
      exts |-> <<>>, minVer |-> 0, maxVer |-> 0],
     [var |-> "ImageBuffer", val |-> 47, caps |-> <<"SampledBuffer">>,
      exts |-> <<>>, minVer |-> 0, maxVer |-> 0],
     [var |-> "ImageMSArray", val |-> 48, caps |-> <<"Shader">>,
      exts |-> <<>>, minVer |-> 0, maxVer |-> 0],
     [var |-> "StorageImageExtendedFormats", val |-> 49, caps |-> <<"Shader">>,
      exts |-> <<>>, minVer |-> 0, maxVer |-> 0],
     [var |-> "ImageQuery", val |-> 50, caps |-> <<"Shader">>,
      exts |-> <<>>, minVer |-> 0, maxVer |-> 0],
     [var |-> "DerivativeControl", val |-> 51, caps |-> <<"Shader">>,
      exts |-> <<>>, minVer |-> 0, maxVer |-> 0],
     [var |-> "InterpolationFunction", val |-> 52, caps |-> <<"Shader">>,
      exts |-> <<>>, minVer |-> 0, maxVer |-> 0],
     [var |-> "TransformFeedback", val |-> 53, caps |-> <<"Shader">>,
      exts |-> <<>>, minVer |-> 0, maxVer |-> 0],
     [var |-> "GeometryStreams", val |-> 54, caps |-> <<"Geometry">>,
      exts |-> <<>>, minVer |-> 0, maxVer |-> 0],
     [var |-> "StorageImageReadWithoutFormat", val |-> 55, caps |-> <<"Shader">>,
      exts |-> <<>>, minVer |-> 0, maxVer |-> 0],
     [var |-> "StorageImageWriteWithoutFormat", val |-> 56, caps |-> <<"Shader">>,
      exts |-> <<>>, minVer |-> 0, maxVer |-> 0],
     [var |-> "MultiViewport", val |-> 57, caps |-> <<"Geometry">>,
      exts |-> <<>>, minVer |-> 0, maxVer |-> 0],
     [var |-> "SubgroupDispatch", val |-> 58, caps |-> <<"DeviceEnqueue">>,
      exts |-> <<>>, minVer |-> 65792, maxVer |-> 0],
     [var |-> "NamedBarrier", val |-> 59, caps |-> <<"Kernel">>,
      exts |-> <<>>, minVer |-> 65792, maxVer |-> 0],
     [var |-> "PipeStorage", val |-> 60, caps |-> <<"Pipes">>,
      exts |-> <<>>, minVer |-> 65792, maxVer |-> 0],
     [var |-> "GroupNonUniform", val |-> 61, caps |-> <<>>,
      exts |-> <<>>, minVer |-> 66304, maxVer |-> 0],
     [var |-> "GroupNonUniformVote", val |-> 62, caps |-> <<"GroupNonUniform">>,
      exts |-> <<>>, minVer |-> 66304, maxVer |-> 0],
     [var |-> "GroupNonUniformArithmetic", val |-> 63, caps |-> <<"GroupNonUniform">>,
      exts |-> <<>>, minVer |-> 66304, maxVer |-> 0],
     [var |-> "GroupNonUniformBallot", val |-> 64, caps |-> <<"GroupNonUniform">>,
      exts |-> <<>>, minVer |-> 66304, maxVer |-> 0],
     [var |-> "GroupNonUniformShuffle", val |-> 65, caps |-> <<"GroupNonUniform">>,
      exts |-> <<>>, minVer |-> 66304, maxVer |-> 0],
     [var |-> "GroupNonUniformShuffleRelative", val |-> 66, caps |-> <<"GroupNonUniform">>,
      exts |-> <<>>, minVer |-> 66304, maxVer |-> 0],
     [var |-> "GroupNonUniformClustered", val |-> 67, caps |-> <<"GroupNonUniform">>,
      exts |-> <<>>, minVer |-> 66304, maxVer |-> 0],
     [var |-> "GroupNonUniformQuad", val |-> 68, caps |-> <<"GroupNonUniform">>,
      exts |-> <<>>, minVer |-> 66304, maxVer |-> 0],
     [var |-> "SubgroupBallotKHR", val |-> 4423, caps |-> <<>>,
      exts |-> <<"SPV_KHR_shader_ballot">>, minVer |-> 0, maxVer |-> 0],
     [var |-> "DrawParameters", val |-> 4427, caps |-> <<"Shader">>,
      exts |-> <<"SPV_KHR_shader_draw_parameters">>, minVer |-> 66304, maxVer |-> 0],
     [var |-> "SubgroupVoteKHR", val |-> 4431, caps |-> <<>>,
      exts |-> <<"SPV_KHR_subgroup_vote">>, minVer |-> 0, maxVer |-> 0],
     [var |-> "StorageBuffer16BitAccess", val |-> 4433, caps |-> <<>>,
      exts |-> <<"SPV_KHR_16bit_storeage">>, minVer |-> 66304, maxVer |-> 0],
     [var |-> "StorageUniform16", val |-> 4434, caps |-> <<"StorageBuffer16BitAccess">>,
      exts |-> <<"SPV_KHR_16bit_storeage">>, minVer |-> 66304, maxVer |-> 0],
     [var |-> "StoragePushConstant16", val |-> 4435, caps |-> <<>>,
      exts |-> <<"SPV_KHR_16bit_storeage">>, minVer |-> 66304, maxVer |-> 0],
     [var |-> "StorageInputOutput16", val |-> 4436, caps |-> <<>>,
      exts |-> <<"SPV_KHR_16bit_storeage">>, minVer |-> 66304, maxVer |-> 0],
     [var |-> "DeviceGroup", val |-> 4437, caps |-> <<>>,
      exts |-> <<"SPV_KHR_device_group">>, minVer |-> 66304, maxVer |-> 0],
     [var |-> "MultiView", val |-> 4439, caps |-> <<"Shader">>,
      exts |-> <<"SPV_KHR_multiview">>, minVer |-> 66304, maxVer |-> 0],
     [var |-> "VariablePointersStorageBuffer", val |-> 4441, caps |-> <<"Shader">>,
      exts |-> <<"SPV_KHR_variable_pointers">>, minVer |-> 66304, maxVer |-> 0],
     [var |-> "VariablePointers", val |-> 4442, caps |-> <<"VariablePointersStorageBuffer">>,
      exts |-> <<"SPV_KHR_variable_pointers">>, minVer |-> 66304, maxVer |-> 0],
     [var |-> "AtomicStorageOps", val |-> 4445, caps |-> <<>>,
      exts |-> <<"SPV_KHR_shader_atomic_counter_ops">>, minVer |-> 0, maxVer |-> 0],
     [var |-> "SampleMaskPostDepthCoverage", val |-> 4447, caps |-> <<>>,
      exts |-> <<"SPV_KHR_post_depth_coverage">>, minVer |-> 0, maxVer |-> 0],
     [var |-> "StorageBuffer8BitAccess", val |-> 4448, caps |-> <<>>,
      exts |-> <<"SPV_KHR_8bit_storage">>, minVer |-> 0, maxVer |-> 0],
     [var |-> "UniformAndStorageBuffer8BitAccess", val |-> 4449, caps |-> <<"StorageBuffer8BitAccess">>,
      exts |-> <<"SPV_KHR_8bit_storage">>, minVer |-> 0, maxVer |-> 0],
     [var |-> "StoragePushConstant8", val |-> 4450, caps |-> <<>>,
      exts |-> <<"SPV_KHR_8bit_storage">>, minVer |-> 0, maxVer |-> 0],
     [var |-> "DenormPreserve", val |-> 4464, caps |-> <<>>,
      exts |-> <<"SPV_KHR_float_controls">>, minVer |-> 66560, maxVer |-> 0],
     [var |-> "DenormFlushToZero", val |-> 4465, caps |-> <<>>,
      exts |-> <<"SPV_KHR_float_controls">>, minVer |-> 66560, maxVer |-> 0],
     [var |-> "SignedZeroInfNanPreserve", val |-> 4466, caps |-> <<>>,
      exts |-> <<"SPV_KHR_float_controls">>, minVer |-> 66560, maxVer |-> 0],
     [var |-> "RoundingModeRTE", val |-> 4467, caps |-> <<>>,
      exts |-> <<"SPV_KHR_float_controls">>, minVer |-> 66560, maxVer |-> 0],
     [var |-> "RoundingModeRTZ", val |-> 4468, caps |-> <<>>,
      exts |-> <<"SPV_KHR_float_controls">>, minVer |-> 66560, maxVer |-> 0],
     [var |-> "Float16ImageAMD", val |-> 5008, caps |-> <<"Shader">>,
      exts |-> <<>>, minVer |-> 0, maxVer |-> 0],
     [var |-> "ImageGatherBiasLodAMD", val |-> 5009, caps |-> <<"Shader">>,
      exts |-> <<>>, minVer |-> 0, maxVer |-> 0],
     [var |-> "FragmentMaskAMD", val |-> 5010, caps |-> <<"Shader">>,
      exts |-> <<>>, minVer |-> 0, maxVer |-> 0],
     [var |-> "StencilExportEXT", val |-> 5013, caps |-> <<"Shader">>,
      exts |-> <<>>, minVer |-> 0, maxVer |-> 0],
     [var |-> "ImageReadWriteLodAMD", val |-> 5015, caps |-> <<"Shader">>,
      exts |-> <<>>, minVer |-> 0, maxVer |-> 0],
     [var |-> "SampleMaskOverrideCoverageNV", val |-> 5249, caps |-> <<"SampleRateShading">>,
      exts |-> <<>>, minVer |-> 0, maxVer |-> 0],
     [var |-> "GeometryShaderPassthroughNV", val |-> 5251, caps |-> <<"Geometry">>,
      exts |-> <<>>, minVer |-> 0, maxVer |-> 0],
     [var |-> "ShaderViewportIndexLayerEXT", val |-> 5254, caps |-> <<"MultiViewport">>,
      exts |-> <<>>, minVer |-> 0, maxVer |-> 0],
     [var |-> "ShaderViewportMaskNV", val |-> 5255, caps |-> <<"ShaderViewportIndexLayerEXT">>,
      exts |-> <<>>, minVer |-> 0, maxVer |-> 0],
     [var |-> "ShaderStereoViewNV", val |-> 5259, caps |-> <<"ShaderViewportMaskNV">>,
      exts |-> <<>>, minVer |-> 0, maxVer |-> 0],
     [var |-> "PerViewAttributesNV", val |-> 5260, caps |-> <<"MultiView">>,
      exts |-> <<>>, minVer |-> 0, maxVer |-> 0],
     [var |-> "FragmentFullyCoveredEXT", val |-> 5265, caps |-> <<"Shader">>,
      exts |-> <<>>, minVer |-> 0, maxVer |-> 0],
     [var |-> "MeshShadingNV", val |-> 5266, caps |-> <<"Shader">>,
      exts |-> <<>>, minVer |-> 0, maxVer |-> 0],
     [var |-> "ShaderNonUniformEXT", val |-> 5301, caps |-> <<"Shader">>,
      exts |-> <<>>, minVer |-> 0, maxVer |-> 0],
     [var |-> "RuntimeDescriptorArrayEXT", val |-> 5302, caps |-> <<"Shader">>,
      exts |-> <<>>, minVer |-> 0, maxVer |-> 0],
     [var |-> "InputAttachmentArrayDynamicIndexingEXT", val |-> 5303, caps |-> <<"InputAttachment">>,
      exts |-> <<>>, minVer |-> 0, maxVer |-> 0],
     [var |-> "UniformTexelBufferArrayDynamicIndexingEXT", val |-> 5304, caps |-> <<"SampledBuffer">>,
      exts |-> <<>>, minVer |-> 0, maxVer |-> 0],
     [var |-> "StorageTexelBufferArrayDynamicIndexingEXT", val |-> 5305, caps |-> <<"ImageBuffer">>,
      exts |-> <<>>, minVer |-> 0, maxVer |-> 0],
     [var |-> "UniformBufferArrayNonUniformIndexingEXT", val |-> 5306, caps |-> <<"ShaderNonUniformEXT">>,
      exts |-> <<>>, minVer |-> 0, maxVer |-> 0],
     [var |-> "SampledImageArrayNonUniformIndexingEXT", val |-> 5307, caps |-> <<"ShaderNonUniformEXT">>,
      exts |-> <<>>, minVer |-> 0, maxVer |-> 0],
     [var |-> "StorageBufferArrayNonUniformIndexingEXT", val |-> 5308, caps |-> <<"ShaderNonUniformEXT">>,
      exts |-> <<>>, minVer |-> 0, maxVer |-> 0],
     [var |-> "StorageImageArrayNonUniformIndexingEXT", val |-> 5309, caps |-> <<"ShaderNonUniformEXT">>,
      exts |-> <<>>, minVer |-> 0, maxVer |-> 0],
     [var |-> "InputAttachmentArrayNonUniformIndexingEXT", val |-> 5310, caps |-> <<"InputAttachment", "ShaderNonUniformEXT">>,
      exts |-> <<>>, minVer |-> 0, maxVer |-> 0],
     [var |-> "UniformTexelBufferArrayNonUniformIndexingEXT", val |-> 5311, caps |-> <<"SampledBuffer", "ShaderNonUniformEXT">>,
      exts |-> <<>>, minVer |-> 0, maxVer |-> 0],
     [var |-> "StorageTexelBufferArrayNonUniformIndexingEXT", val |-> 5312, caps |-> <<"ImageBuffer", "ShaderNonUniformEXT">>,
      exts |-> <<>>, minVer |-> 0, maxVer |-> 0],
     [var |-> "RayTracingNV", val |-> 5340, caps |-> <<"Shader">>,
      exts |-> <<>>, minVer |-> 0, maxVer |-> 0],
     [var |-> "SubgroupShuffleINTEL", val |-> 5568, caps |-> <<>>,
      exts |-> <<>>, minVer |-> 0, maxVer |-> 0],
     [var |-> "SubgroupBufferBlockIOINTEL", val |-> 5569, caps |-> <<>>,
      exts |-> <<>>, minVer |-> 0, maxVer |-> 0],
     [var |-> "SubgroupImageBlockIOINTEL", val |-> 5570, caps |-> <<>>,
      exts |-> <<>>, minVer |-> 0, maxVer |-> 0],
     [var |-> "SubgroupImageMediaBlockIOINTEL", val |-> 5579, caps |-> <<>>,
      exts |-> <<>>, minVer |-> 0, maxVer |-> 0],
     [var |-> "SubgroupAvcMotionEstimationINTEL", val |-> 5696, caps |-> <<>>,
      exts |-> <<>>, minVer |-> 0, maxVer |-> 0],
     [var |-> "SubgroupAvcMotionEstimationIntraINTEL", val |-> 5697, caps |-> <<>>,
      exts |-> <<>>, minVer |-> 0, maxVer |-> 0],
     [var |-> "SubgroupAvcMotionEstimationChromaINTEL", val |-> 5698, caps |-> <<>>,
      exts |-> <<>>, minVer |-> 0, maxVer |-> 0],
     [var |-> "GroupNonUniformPartitionedNV", val |-> 5297, caps |-> <<>>,
      exts |-> <<>>, minVer |-> 0, maxVer |-> 0],
     [var |-> "VulkanMemoryModelKHR", val |-> 5345, caps |-> <<>>,
      exts |-> <<>>, minVer |-> 0, maxVer |-> 0],
     [var |-> "VulkanMemoryModelDeviceScopeKHR", val |-> 5346, caps |-> <<>>,
      exts |-> <<>>, minVer |-> 0, maxVer |-> 0],
     [var |-> "ImageFootprintNV", val |-> 5282, caps |-> <<>>,
      exts |-> <<>>, minVer |-> 0, maxVer |-> 0],
     [var |-> "FragmentBarycentricNV", val |-> 5284, caps |-> <<>>,
      exts |-> <<>>, minVer |-> 0, maxVer |-> 0],
     [var |-> "ComputeDerivativeGroupQuadsNV", val |-> 5288, caps |-> <<>>,
      exts |-> <<>>, minVer |-> 0, maxVer |-> 0],
     [var |-> "ComputeDerivativeGroupLinearNV", val |-> 5350, caps |-> <<>>,
      exts |-> <<>>, minVer |-> 0, maxVer |-> 0],
     [var |-> "FragmentDensityEXT", val |-> 5291, caps |-> <<"Shader">>,
      exts |-> <<>>, minVer |-> 0, maxVer |-> 0],
     [var |-> "PhysicalStorageBufferAddresses", val |-> 5347, caps |-> <<"Shader">>,
      exts |-> <<>>, minVer |-> 0, maxVer |-> 0],
     [var |-> "CooperativeMatrixNV", val |-> 5357, caps |-> <<"Shader">>,
      exts |-> <<>>, minVer |-> 0, maxVer |-> 0] >>

\* AddressingModel: SPIRVEnums.h lines 303-308, one record per X(...) entry in table order.
DEF_AddressingModel ==
  << [var |-> "Logical", val |-> 0, caps |-> <<>>,
      exts |-> <<>>, minVer |-> 0, maxVer |-> 0],
     [var |-> "Physical32", val |-> 1, caps |-> <<"Addresses">>,
      exts |-> <<>>, minVer |-> 0, maxVer |-> 0],
     [var |-> "Physical64", val |-> 2, caps |-> <<"Addresses">>,
      exts |-> <<>>, minVer |-> 0, maxVer |-> 0],
     [var |-> "PhysicalStorageBuffer64", val |-> 5348, caps |-> <<"PhysicalStorageBufferAddresses">>,
      exts |-> <<>>, minVer |-> 0, maxVer |-> 0] >>

\* ExecutionModel: SPIRVEnums.h lines 311-326, one record per X(...) entry in table order.
DEF_ExecutionModel ==
  << [var |-> "Vertex", val |-> 0, caps |-> <<"Shader">>,
      exts |-> <<>>, minVer |-> 0, maxVer |-> 0],
     [var |-> "TessellationControl", val |-> 1, caps |-> <<"Tessellation">>,
      exts |-> <<>>, minVer |-> 0, maxVer |-> 0],
     [var |-> "TessellationEvaluation", val |-> 2, caps |-> <<"Tessellation">>,
      exts |-> <<>>, minVer |-> 0, maxVer |-> 0],
     [var |-> "Geometry", val |-> 3, caps |-> <<"Geometry">>,
      exts |-> <<>>, minVer |-> 0, maxVer |-> 0],
     [var |-> "Fragment", val |-> 4, caps |-> <<"Shader">>,
      exts |-> <<>>, minVer |-> 0, maxVer |-> 0],
     [var |-> "GLCompute", val |-> 5, caps |-> <<"Shader">>,
      exts |-> <<>>, minVer |-> 0, maxVer |-> 0],
     [var |-> "Kernel", val |-> 6, caps |-> <<"Kernel">>,
      exts |-> <<>>, minVer |-> 0, maxVer |-> 0],
     [var |-> "TaskNV", val |-> 5267, caps |-> <<"MeshShadingNV">>,
      exts |-> <<>>, minVer |-> 0, maxVer |-> 0],
     [var |-> "MeshNV", val |-> 5268, caps |-> <<"MeshShadingNV">>,
      exts |-> <<>>, minVer |-> 0, maxVer |-> 0],
     [var |-> "RayGenerationNV", val |-> 5313, caps |-> <<"RayTracingNV">>,
      exts |-> <<>>, minVer |-> 0, maxVer |-> 0],
     [var |-> "IntersectionNV", val |-> 5314, caps |-> <<"RayTracingNV">>,
      exts |-> <<>>, minVer |-> 0, maxVer |-> 0],
     [var |-> "AnyHitNV", val |-> 5315, caps |-> <<"RayTracingNV">>,
      exts |-> <<>>, minVer |-> 0, maxVer |-> 0],
     [var |-> "ClosestHitNV", val |-> 5316, caps |-> <<"RayTracingNV">>,
      exts |-> <<>>, minVer |-> 0, maxVer |-> 0],
     [var |-> "MissNV", val |-> 5317, caps |-> <<"RayTracingNV">>,
      exts |-> <<>>, minVer |-> 0, maxVer |-> 0],
     [var |-> "CallableNV", val |-> 5318, caps |-> <<"RayTracingNV">>,
      exts |-> <<>>, minVer |-> 0, maxVer |-> 0] >>

\* MemoryModel: SPIRVEnums.h lines 329-333, one record per X(...) entry in table order.
DEF_MemoryModel ==
  << [var |-> "Simple", val |-> 0, caps |-> <<"Shader">>,
      exts |-> <<>>, minVer |-> 0, maxVer |-> 0],
     [var |-> "GLSL450", val |-> 1, caps |-> <<"Shader">>,
      exts |-> <<>>, minVer |-> 0, maxVer |-> 0],
     [var |-> "OpenCL", val |-> 2, caps |-> <<"Kernel">>,
      exts |-> <<>>, minVer |-> 0, maxVer |-> 0],
     [var |-> "VulkanKHR", val |-> 3, caps |-> <<"VulkanMemoryModelKHR">>,
      exts |-> <<>>, minVer |-> 0, maxVer |-> 0] >>

\* ExecutionMode: SPIRVEnums.h lines 336-394, one record per X(...) entry in table order.
DEF_ExecutionMode ==
  << [var |-> "Invocations", val |-> 0, caps |-> <<"Geometry">>,
      exts |-> <<>>, minVer |-> 0, maxVer |-> 0],
     [var |-> "SpacingEqual", val |-> 1, caps |-> <<"Tessellation">>,
      exts |-> <<>>, minVer |-> 0, maxVer |-> 0],
     [var |-> "SpacingFractionalEven", val |-> 2, caps |-> <<"Tessellation">>,
      exts |-> <<>>, minVer |-> 0, maxVer |-> 0],
     [var |-> "SpacingFractionalOdd", val |-> 3, caps |-> <<"Tessellation">>,
      exts |-> <<>>, minVer |-> 0, maxVer |-> 0],
     [var |-> "VertexOrderCw", val |-> 4, caps |-> <<"Tessellation">>,
      exts |-> <<>>, minVer |-> 0, maxVer |-> 0],
     [var |-> "VertexOrderCcw", val |-> 5, caps |-> <<"Tessellation">>,
      exts |-> <<>>, minVer |-> 0, maxVer |-> 0],
     [var |-> "PixelCenterInteger", val |-> 6, caps |-> <<"Shader">>,
      exts |-> <<>>, minVer |-> 0, maxVer |-> 0],
     [var |-> "OriginUpperLeft", val |-> 7, caps |-> <<"Shader">>,
      exts |-> <<>>, minVer |-> 0, maxVer |-> 0],
     [var |-> "OriginLowerLeft", val |-> 8, caps |-> <<"Shader">>,
      exts |-> <<>>, minVer |-> 0, maxVer |-> 0],
     [var |-> "EarlyFragmentTests", val |-> 9, caps |-> <<"Shader">>,
      exts |-> <<>>, minVer |-> 0, maxVer |-> 0],
     [var |-> "PointMode", val |-> 10, caps |-> <<"Tessellation">>,
      exts |-> <<>>, minVer |-> 0, maxVer |-> 0],
     [var |-> "Xfb", val |-> 11, caps |-> <<"TransformFeedback">>,
      exts |-> <<>>, minVer |-> 0, maxVer |-> 0],
     [var |-> "DepthReplacing", val |-> 12, caps |-> <<"Shader">>,
      exts |-> <<>>, minVer |-> 0, maxVer |-> 0],
     [var |-> "DepthGreater", val |-> 14, caps |-> <<"Shader">>,
      exts |-> <<>>, minVer |-> 0, maxVer |-> 0],
     [var |-> "DepthLess", val |-> 15, caps |-> <<"Shader">>,
      exts |-> <<>>, minVer |-> 0, maxVer |-> 0],
     [var |-> "DepthUnchanged", val |-> 16, caps |-> <<"Shader">>,
      exts |-> <<>>, minVer |-> 0, maxVer |-> 0],
     [var |-> "LocalSize", val |-> 17, caps |-> <<>>,
      exts |-> <<>>, minVer |-> 0, maxVer |-> 0],
     [var |-> "LocalSizeHint", val |-> 18, caps |-> <<"Kernel">>,
      exts |-> <<>>, minVer |-> 0, maxVer |-> 0],
     [var |-> "InputPoints", val |-> 19, caps |-> <<"Geometry">>,
      exts |-> <<>>, minVer |-> 0, maxVer |-> 0],
     [var |-> "InputLines", val |-> 20, caps |-> <<"Geometry">>,
      exts |-> <<>>, minVer |-> 0, maxVer |-> 0],
     [var |-> "InputLinesAdjacency", val |-> 21, caps |-> <<"Geometry">>,
      exts |-> <<>>, minVer |-> 0, maxVer |-> 0],
     [var |-> "Triangles", val |-> 22, caps |-> <<"Geometry", "Tessellation">>,
      exts |-> <<>>, minVer |-> 0, maxVer |-> 0],
     [var |-> "InputTrianglesAdjacency", val |-> 23, caps |-> <<"Geometry">>,
      exts |-> <<>>, minVer |-> 0, maxVer |-> 0],
     [var |-> "Quads", val |-> 24, caps |-> <<"Tessellation">>,
      exts |-> <<>>, minVer |-> 0, maxVer |-> 0],
     [var |-> "Isolines", val |-> 25, caps |-> <<"Tessellation">>,
      exts |-> <<>>, minVer |-> 0, maxVer |-> 0],
     [var |-> "OutputVertices", val |-> 26, caps |-> <<"Geometry", "Tessellation", "MeshShadingNV">>,
      exts |-> <<>>, minVer |-> 0, maxVer |-> 0],
     [var |-> "OutputPoints", val |-> 27, caps |-> <<"Geometry", "MeshShadingNV">>,
      exts |-> <<>>, minVer |-> 0, maxVer |-> 0],
     [var |-> "OutputLineStrip", val |-> 28, caps |-> <<"Geometry">>,
      exts |-> <<>>, minVer |-> 0, maxVer |-> 0],
     [var |-> "OutputTriangleStrip", val |-> 29, caps |-> <<"Geometry">>,
      exts |-> <<>>, minVer |-> 0, maxVer |-> 0],
     [var |-> "VecTypeHint", val |-> 30, caps |-> <<"Kernel">>,
      exts |-> <<>>, minVer |-> 0, maxVer |-> 0],
     [var |-> "ContractionOff", val |-> 31, caps |-> <<"Kernel">>,
      exts |-> <<>>, minVer |-> 0, maxVer |-> 0],
     [var |-> "Initializer", val |-> 33, caps |-> <<"Kernel">>,
      exts |-> <<>>, minVer |-> 0, maxVer |-> 0],
     [var |-> "Finalizer", val |-> 34, caps |-> <<"Kernel">>,
      exts |-> <<>>, minVer |-> 0, maxVer |-> 0],
     [var |-> "SubgroupSize", val |-> 35, caps |-> <<"SubgroupDispatch">>,
      exts |-> <<>>, minVer |-> 0, maxVer |-> 0],
     [var |-> "SubgroupsPerWorkgroup", val |-> 36, caps |-> <<"SubgroupDispatch">>,
      exts |-> <<>>, minVer |-> 0, maxVer |-> 0],
     [var |-> "SubgroupsPerWorkgroupId", val |-> 37, caps |-> <<"SubgroupDispatch">>,
      exts |-> <<>>, minVer |-> 0, maxVer |-> 0],
     [var |-> "LocalSizeId", val |-> 38, caps |-> <<>>,
      exts |-> <<>>, minVer |-> 0, maxVer |-> 0],
     [var |-> "LocalSizeHintId", val |-> 39, caps |-> <<"Kernel">>,
      exts |-> <<>>, minVer |-> 0, maxVer |-> 0],
     [var |-> "PostDepthCoverage", val |-> 4446, caps |-> <<"SampleMaskPostDepthCoverage">>,
      exts |-> <<>>, minVer |-> 0, maxVer |-> 0],
     [var |-> "DenormPreserve", val |-> 4459, caps |-> <<"DenormPreserve">>,
      exts |-> <<>>, minVer |-> 0, maxVer |-> 0],
     [var |-> "DenormFlushToZero", val |-> 4460, caps |-> <<"DenormFlushToZero">>,
      exts |-> <<>>, minVer |-> 0, maxVer |-> 0],
     [var |-> "SignedZeroInfNanPreserve", val |-> 4461, caps |-> <<"SignedZeroInfNanPreserve">>,
      exts |-> <<>>, minVer |-> 0, maxVer |-> 0],
     [var |-> "RoundingModeRTE", val |-> 4462, caps |-> <<"RoundingModeRTE">>,
      exts |-> <<>>, minVer |-> 0, maxVer |-> 0],
     [var |-> "RoundingModeRTZ", val |-> 4463, caps |-> <<"RoundingModeRTZ">>,
      exts |-> <<>>, minVer |-> 0, maxVer |-> 0],
     [var |-> "StencilRefReplacingEXT", val |-> 5027, caps |-> <<"StencilExportEXT">>,
      exts |-> <<>>, minVer |-> 0, maxVer |-> 0],
     [var |-> "OutputLinesNV", val |-> 5269, caps |-> <<"MeshShadingNV">>,
      exts |-> <<>>, minVer |-> 0, maxVer |-> 0],
     [var |-> "DerivativeGroupQuadsNV", val |-> 5289, caps |-> <<"ComputeDerivativeGroupQuadsNV">>,
      exts |-> <<>>, minVer |-> 0, maxVer |-> 0],
     [var |-> "DerivativeGroupLinearNV", val |-> 5290, caps |-> <<"ComputeDerivativeGroupLinearNV">>,
      exts |-> <<>>, minVer |-> 0, maxVer |-> 0],
     [var |-> "OutputTrianglesNV", val |-> 5298, caps |-> <<"MeshShadingNV">>,
      exts |-> <<>>, minVer |-> 0, maxVer |-> 0] >>

\* StorageClass: SPIRVEnums.h lines 397-418, one record per X(...) entry in table order.
DEF_StorageClass ==
  << [var |-> "UniformConstant", val |-> 0, caps |-> <<>>,
      exts |-> <<>>, minVer |-> 0, maxVer |-> 0],
     [var |-> "Input", val |-> 1, caps |-> <<>>,
      exts |-> <<>>, minVer |-> 0, maxVer |-> 0],
     [var |-> "Uniform", val |-> 2, caps |-> <<"Shader">>,
      exts |-> <<>>, minVer |-> 0, maxVer |-> 0],
     [var |-> "Output", val |-> 3, caps |-> <<"Shader">>,
      exts |-> <<>>, minVer |-> 0, maxVer |-> 0],
     [var |-> "Workgroup", val |-> 4, caps |-> <<>>,
      exts |-> <<>>, minVer |-> 0, maxVer |-> 0],
     [var |-> "CrossWorkgroup", val |-> 5, caps |-> <<>>,
      exts |-> <<>>, minVer |-> 0, maxVer |-> 0],
     [var |-> "Private", val |-> 6, caps |-> <<"Shader">>,
      exts |-> <<>>, minVer |-> 0, maxVer |-> 0],
     [var |-> "Function", val |-> 7, caps |-> <<>>,
      exts |-> <<>>, minVer |-> 0, maxVer |-> 0],
     [var |-> "Generic", val |-> 8, caps |-> <<"GenericPointer">>,
      exts |-> <<>>, minVer |-> 0, maxVer |-> 0],
     [var |-> "PushConstant", val |-> 9, caps |-> <<"Shader">>,
      exts |-> <<>>, minVer |-> 0, maxVer |-> 0],
     [var |-> "AtomicCounter", val |-> 10, caps |-> <<"AtomicStorage">>,
      exts |-> <<>>, minVer |-> 0, maxVer |-> 0],
     [var |-> "Image", val |-> 11, caps |-> <<>>,
      exts |-> <<>>, minVer |-> 0, maxVer |-> 0],
     [var |-> "StorageBuffer", val |-> 12, caps |-> <<"Shader">>,
      exts |-> <<>>, minVer |-> 0, maxVer |-> 0],
     [var |-> "CallableDataNV", val |-> 5328, caps |-> <<"RayTracingNV">>,
      exts |-> <<>>, minVer |-> 0, maxVer |-> 0],
     [var |-> "IncomingCallableDataNV", val |-> 5329, caps |-> <<"RayTracingNV">>,
      exts |-> <<>>, minVer |-> 0, maxVer |-> 0],
     [var |-> "RayPayloadNV", val |-> 5338, caps |-> <<"RayTracingNV">>,
      exts |-> <<>>, minVer |-> 0, maxVer |-> 0],
     [var |-> "HitAttributeNV", val |-> 5339, caps |-> <<"RayTracingNV">>,
      exts |-> <<>>, minVer |-> 0, maxVer |-> 0],
     [var |-> "IncomingRayPayloadNV", val |-> 5342, caps |-> <<"RayTracingNV">>,
      exts |-> <<>>, minVer |-> 0, maxVer |-> 0],
     [var |-> "ShaderRecordBufferNV", val |-> 5343, caps |-> <<"RayTracingNV">>,
      exts |-> <<>>, minVer |-> 0, maxVer |-> 0],
     [var |-> "PhysicalStorageBuffer", val |-> 5349, caps |-> <<"PhysicalStorageBufferAddresses">>,
      exts |-> <<>>, minVer |-> 0, maxVer |-> 0] >>

\* Dim: SPIRVEnums.h lines 424-437, one record per X(...) entry in table order.
DEF_Dim ==
  << [var |-> "DIM_1D", val |-> 0, caps |-> <<"Sampled1D", "Image1D">>,
      exts |-> <<>>, minVer |-> 0, maxVer |-> 0],
     [var |-> "DIM_2D", val |-> 1, caps |-> <<"Shader", "Kernel", "ImageMSArray">>,
      exts |-> <<>>, minVer |-> 0, maxVer |-> 0],
     [var |-> "DIM_3D", val |-> 2, caps |-> <<>>,
      exts |-> <<>>, minVer |-> 0, maxVer |-> 0],
     [var |-> "DIM_Cube", val |-> 3, caps |-> <<"Shader", "ImageCubeArray">>,
      exts |-> <<>>, minVer |-> 0, maxVer |-> 0],
     [var |-> "DIM_Rect", val |-> 4, caps |-> <<"SampledRect", "ImageRect">>,
      exts |-> <<>>, minVer |-> 0, maxVer |-> 0],
     [var |-> "DIM_Buffer", val |-> 5, caps |-> <<"SampledBuffer", "ImageBuffer">>,
      exts |-> <<>>, minVer |-> 0, maxVer |-> 0],
     [var |-> "DIM_SubpassData", val |-> 6, caps |-> <<"InputAttachment">>,
      exts |-> <<>>, minVer |-> 0, maxVer |-> 0] >>

\* ImageFormat: SPIRVEnums.h lines 453-493, one record per X(...) entry in table order.
DEF_ImageFormat ==
  << [var |-> "Unknown", val |-> 0, caps |-> <<>>,
      exts |-> <<>>, minVer |-> 0, maxVer |-> 0],
     [var |-> "Rgba32f", val |-> 1, caps |-> <<"Shader">>,
      exts |-> <<>>, minVer |-> 0, maxVer |-> 0],
     [var |-> "Rgba16f", val |-> 2, caps |-> <<"Shader">>,
      exts |-> <<>>, minVer |-> 0, maxVer |-> 0],
     [var |-> "R32f", val |-> 3, caps |-> <<"Shader">>,
      exts |-> <<>>, minVer |-> 0, maxVer |-> 0],
     [var |-> "Rgba8", val |-> 4, caps |-> <<"Shader">>,
      exts |-> <<>>, minVer |-> 0, maxVer |-> 0],
     [var |-> "Rgba8Snorm", val |-> 5, caps |-> <<"Shader">>,
      exts |-> <<>>, minVer |-> 0, maxVer |-> 0],
     [var |-> "Rg32f", val |-> 6, caps |-> <<"StorageImageExtendedFormats">>,
      exts |-> <<>>, minVer |-> 0, maxVer |-> 0],
     [var |-> "Rg16f", val |-> 7, caps |-> <<"StorageImageExtendedFormats">>,
      exts |-> <<>>, minVer |-> 0, maxVer |-> 0],
     [var |-> "R11fG11fB10f", val |-> 8, caps |-> <<"StorageImageExtendedFormats">>,
      exts |-> <<>>, minVer |-> 0, maxVer |-> 0],
     [var |-> "R16f", val |-> 9, caps |-> <<"StorageImageExtendedFormats">>,
      exts |-> <<>>, minVer |-> 0, maxVer |-> 0],
     [var |-> "Rgba16", val |-> 10, caps |-> <<"StorageImageExtendedFormats">>,
      exts |-> <<>>, minVer |-> 0, maxVer |-> 0],
     [var |-> "Rgb10A2", val |-> 11, caps |-> <<"StorageImageExtendedFormats">>,
      exts |-> <<>>, minVer |-> 0, maxVer |-> 0],
     [var |-> "Rg16", val |-> 12, caps |-> <<"StorageImageExtendedFormats">>,
      exts |-> <<>>, minVer |-> 0, maxVer |-> 0],
     [var |-> "Rg8", val |-> 13, caps |-> <<"StorageImageExtendedFormats">>,
      exts |-> <<>>, minVer |-> 0, maxVer |-> 0],
     [var |-> "R16", val |-> 14, caps |-> <<"StorageImageExtendedFormats">>,
      exts |-> <<>>, minVer |-> 0, maxVer |-> 0],
     [var |-> "R8", val |-> 15, caps |-> <<"StorageImageExtendedFormats">>,
      exts |-> <<>>, minVer |-> 0, maxVer |-> 0],
     [var |-> "Rgba16Snorm", val |-> 16, caps |-> <<"StorageImageExtendedFormats">>,
      exts |-> <<>>, minVer |-> 0, maxVer |-> 0],
     [var |-> "Rg16Snorm", val |-> 17, caps |-> <<"StorageImageExtendedFormats">>,
      exts |-> <<>>, minVer |-> 0, maxVer |-> 0],
     [var |-> "Rg8Snorm", val |-> 18, caps |-> <<"StorageImageExtendedFormats">>,
      exts |-> <<>>, minVer |-> 0, maxVer |-> 0],
     [var |-> "R16Snorm", val |-> 19, caps |-> <<"StorageImageExtendedFormats">>,
      exts |-> <<>>, minVer |-> 0, maxVer |-> 0],
     [var |-> "R8Snorm", val |-> 20, caps |-> <<"StorageImageExtendedFormats">>,
      exts |-> <<>>, minVer |-> 0, maxVer |-> 0],
     [var |-> "Rgba32i", val |-> 21, caps |-> <<"Shader">>,
      exts |-> <<>>, minVer |-> 0, maxVer |-> 0],
     [var |-> "Rgba16i", val |-> 22, caps |-> <<"Shader">>,
      exts |-> <<>>, minVer |-> 0, maxVer |-> 0],
     [var |-> "Rgba8i", val |-> 23, caps |-> <<"Shader">>,
      exts |-> <<>>, minVer |-> 0, maxVer |-> 0],
     [var |-> "R32i", val |-> 24, caps |-> <<"Shader">>,
      exts |-> <<>>, minVer |-> 0, maxVer |-> 0],
     [var |-> "Rg32i", val |-> 25, caps |-> <<"StorageImageExtendedFormats">>,
      exts |-> <<>>, minVer |-> 0, maxVer |-> 0],
     [var |-> "Rg16i", val |-> 26, caps |-> <<"StorageImageExtendedFormats">>,
      exts |-> <<>>, minVer |-> 0, maxVer |-> 0],
     [var |-> "Rg8i", val |-> 27, caps |-> <<"StorageImageExtendedFormats">>,
      exts |-> <<>>, minVer |-> 0, maxVer |-> 0],
     [var |-> "R16i", val |-> 28, caps |-> <<"StorageImageExtendedFormats">>,
      exts |-> <<>>, minVer |-> 0, maxVer |-> 0],
     [var |-> "R8i", val |-> 29, caps |-> <<"StorageImageExtendedFormats">>,
      exts |-> <<>>, minVer |-> 0, maxVer |-> 0],
     [var |-> "Rgba32ui", val |-> 30, caps |-> <<"Shader">>,
      exts |-> <<>>, minVer |-> 0, maxVer |-> 0],
     [var |-> "Rgba16ui", val |-> 31, caps |-> <<"Shader">>,
      exts |-> <<>>, minVer |-> 0, maxVer |-> 0],
     [var |-> "Rgba8ui", val |-> 32, caps |-> <<"Shader">>,
      exts |-> <<>>, minVer |-> 0, maxVer |-> 0],
     [var |-> "R32ui", val |-> 33, caps |-> <<"Shader">>,
      exts |-> <<>>, minVer |-> 0, maxVer |-> 0],
     [var |-> "Rgb10a2ui", val |-> 34, caps |-> <<"StorageImageExtendedFormats">>,
      exts |-> <<>>, minVer |-> 0, maxVer |-> 0],
     [var |-> "Rg32ui", val |-> 35, caps |-> <<"StorageImageExtendedFormats">>,
      exts |-> <<>>, minVer |-> 0, maxVer |-> 0],
     [var |-> "Rg16ui", val |-> 36, caps |-> <<"StorageImageExtendedFormats">>,
      exts |-> <<>>, minVer |-> 0, maxVer |-> 0],
     [var |-> "Rg8ui", val |-> 37, caps |-> <<"StorageImageExtendedFormats">>,
      exts |-> <<>>, minVer |-> 0, maxVer |-> 0],
     [var |-> "R16ui", val |-> 38, caps |-> <<"StorageImageExtendedFormats">>,
      exts |-> <<>>, minVer |-> 0, maxVer |-> 0],
     [var |-> "R8ui", val |-> 39, caps |-> <<"StorageImageExtendedFormats">>,
      exts |-> <<>>, minVer |-> 0, maxVer |-> 0] >>

\* AccessQualifier: SPIRVEnums.h lines 581-584, one record per X(...) entry in table order.
DEF_AccessQualifier ==
  << [var |-> "ReadOnly", val |-> 0, caps |-> <<"Kernel">>,
      exts |-> <<>>, minVer |-> 0, maxVer |-> 0],
     [var |-> "WriteOnly", val |-> 1, caps |-> <<"Kernel">>,
      exts |-> <<>>, minVer |-> 0, maxVer |-> 0],
     [var |-> "ReadWrite", val |-> 2, caps |-> <<"Kernel">>,
      exts |-> <<>>, minVer |-> 0, maxVer |-> 0] >>

\* Decoration: SPIRVEnums.h lines 598-665, one record per X(...) entry in table order.
DEF_Decoration ==
  << [var |-> "RelaxedPrecision", val |-> 0, caps |-> <<"Shader">>,
      exts |-> <<>>, minVer |-> 0, maxVer |-> 0],
     [var |-> "SpecId", val |-> 1, caps |-> <<"Shader", "Kernel">>,
      exts |-> <<>>, minVer |-> 0, maxVer |-> 0],
     [var |-> "Block", val |-> 2, caps |-> <<"Shader">>,
      exts |-> <<>>, minVer |-> 0, maxVer |-> 0],
     [var |-> "BufferBlock", val |-> 3, caps |-> <<"Shader">>,
      exts |-> <<>>, minVer |-> 0, maxVer |-> 0],
     [var |-> "RowMajor", val |-> 4, caps |-> <<"Matrix">>,
      exts |-> <<>>, minVer |-> 0, maxVer |-> 0],
     [var |-> "ColMajor", val |-> 5, caps |-> <<"Matrix">>,
      exts |-> <<>>, minVer |-> 0, maxVer |-> 0],
     [var |-> "ArrayStride", val |-> 6, caps |-> <<"Shader">>,
      exts |-> <<>>, minVer |-> 0, maxVer |-> 0],
     [var |-> "MatrixStride", val |-> 7, caps |-> <<"Matrix">>,
      exts |-> <<>>, minVer |-> 0, maxVer |-> 0],
     [var |-> "GLSLShared", val |-> 8, caps |-> <<"Shader">>,
      exts |-> <<>>, minVer |-> 0, maxVer |-> 0],
     [var |-> "GLSLPacked", val |-> 9, caps |-> <<"Shader">>,
      exts |-> <<>>, minVer |-> 0, maxVer |-> 0],
     [var |-> "CPacked", val |-> 10, caps |-> <<"Kernel">>,
      exts |-> <<>>, minVer |-> 0, maxVer |-> 0],
     [var |-> "BuiltIn", val |-> 11, caps |-> <<>>,
      exts |-> <<>>, minVer |-> 0, maxVer |-> 0],
     [var |-> "NoPerspective", val |-> 13, caps |-> <<"Shader">>,
      exts |-> <<>>, minVer |-> 0, maxVer |-> 0],
     [var |-> "Flat", val |-> 14, caps |-> <<"Shader">>,
      exts |-> <<>>, minVer |-> 0, maxVer |-> 0],
     [var |-> "Patch", val |-> 15, caps |-> <<"Tessellation">>,
      exts |-> <<>>, minVer |-> 0, maxVer |-> 0],
     [var |-> "Centroid", val |-> 16, caps |-> <<"Shader">>,
      exts |-> <<>>, minVer |-> 0, maxVer |-> 0],
     [var |-> "Sample", val |-> 17, caps |-> <<"SampleRateShading">>,
      exts |-> <<>>, minVer |-> 0, maxVer |-> 0],
     [var |-> "Invariant", val |-> 18, caps |-> <<"Shader">>,
      exts |-> <<>>, minVer |-> 0, maxVer |-> 0],
     [var |-> "Restrict", val |-> 19, caps |-> <<>>,
      exts |-> <<>>, minVer |-> 0, maxVer |-> 0],
     [var |-> "Aliased", val |-> 20, caps |-> <<>>,
      exts |-> <<>>, minVer |-> 0, maxVer |-> 0],
     [var |-> "Volatile", val |-> 21, caps |-> <<>>,
      exts |-> <<>>, minVer |-> 0, maxVer |-> 0],
     [var |-> "Constant", val |-> 22, caps |-> <<"Kernel">>,
      exts |-> <<>>, minVer |-> 0, maxVer |-> 0],
     [var |-> "Coherent", val |-> 23, caps |-> <<>>,
      exts |-> <<>>, minVer |-> 0, maxVer |-> 0],
     [var |-> "NonWritable", val |-> 24, caps |-> <<>>,
      exts |-> <<>>, minVer |-> 0, maxVer |-> 0],
     [var |-> "NonReadable", val |-> 25, caps |-> <<>>,
      exts |-> <<>>, minVer |-> 0, maxVer |-> 0],
     [var |-> "Uniform", val |-> 26, caps |-> <<"Shader">>,
      exts |-> <<>>, minVer |-> 0, maxVer |-> 0],
     [var |-> "UniformId", val |-> 27, caps |-> <<"Shader">>,
      exts |-> <<>>, minVer |-> 0, maxVer |-> 0],
     [var |-> "SaturatedConversion", val |-> 28, caps |-> <<"Kernel">>,
      exts |-> <<>>, minVer |-> 0, maxVer |-> 0],
     [var |-> "Stream", val |-> 29, caps |-> <<"GeometryStreams">>,
      exts |-> <<>>, minVer |-> 0, maxVer |-> 0],
     [var |-> "Location", val |-> 30, caps |-> <<"Shader">>,
      exts |-> <<>>, minVer |-> 0, maxVer |-> 0],
     [var |-> "Component", val |-> 31, caps |-> <<"Shader">>,
      exts |-> <<>>, minVer |-> 0, maxVer |-> 0],
     [var |-> "Index", val |-> 32, caps |-> <<"Shader">>,
      exts |-> <<>>, minVer |-> 0, maxVer |-> 0],
     [var |-> "Binding", val |-> 33, caps |-> <<"Shader">>,
      exts |-> <<>>, minVer |-> 0, maxVer |-> 0],
     [var |-> "DescriptorSet", val |-> 34, caps |-> <<"Shader">>,
      exts |-> <<>>, minVer |-> 0, maxVer |-> 0],
     [var |-> "Offset", val |-> 35, caps |-> <<"Shader">>,
      exts |-> <<>>, minVer |-> 0, maxVer |-> 0],
     [var |-> "XfbBuffer", val |-> 36, caps |-> <<"TransformFeedback">>,
      exts |-> <<>>, minVer |-> 0, maxVer |-> 0],
     [var |-> "XfbStride", val |-> 37, caps |-> <<"TransformFeedback">>,
      exts |-> <<>>, minVer |-> 0, maxVer |-> 0],
     [var |-> "FuncParamAttr", val |-> 38, caps |-> <<"Kernel">>,
      exts |-> <<>>, minVer |-> 0, maxVer |-> 0],
     [var |-> "FPRoundingMode", val |-> 39, caps |-> <<>>,
      exts |-> <<>>, minVer |-> 0, maxVer |-> 0],
     [var |-> "FPFastMathMode", val |-> 40, caps |-> <<"Kernel">>,
      exts |-> <<>>, minVer |-> 0, maxVer |-> 0],
     [var |-> "LinkageAttributes", val |-> 41, caps |-> <<"Linkage">>,
      exts |-> <<>>, minVer |-> 0, maxVer |-> 0],
     [var |-> "NoContraction", val |-> 42, caps |-> <<"Shader">>,
      exts |-> <<>>, minVer |-> 0, maxVer |-> 0],
     [var |-> "InputAttachmentIndex", val |-> 43, caps |-> <<"InputAttachment">>,
      exts |-> <<>>, minVer |-> 0, maxVer |-> 0],
     [var |-> "Alignment", val |-> 44, caps |-> <<"Kernel">>,
      exts |-> <<>>, minVer |-> 0, maxVer |-> 0],
     [var |-> "MaxByteOffset", val |-> 45, caps |-> <<"Addresses">>,
      exts |-> <<>>, minVer |-> 0, maxVer |-> 0],
     [var |-> "AlignmentId", val |-> 46, caps |-> <<"Kernel">>,
      exts |-> <<>>, minVer |-> 0, maxVer |-> 0],
     [var |-> "MaxByteOffsetId", val |-> 47, caps |-> <<"Addresses">>,
      exts |-> <<>>, minVer |-> 0, maxVer |-> 0],
     [var |-> "NoSignedWrap", val |-> 4469, caps |-> <<>>,
      exts |-> <<"SPV_KHR_no_integer_wrap_decoration">>, minVer |-> 66560, maxVer |-> 0],
     [var |-> "NoUnsignedWrap", val |-> 4470, caps |-> <<>>,
      exts |-> <<"SPV_KHR_no_integer_wrap_decoration">>, minVer |-> 66560, maxVer |-> 0],
     [var |-> "ExplicitInterpAMD", val |-> 4999, caps |-> <<>>,
      exts |-> <<>>, minVer |-> 0, maxVer |-> 0],
     [var |-> "OverrideCoverageNV", val |-> 5248, caps |-> <<"SampleMaskOverrideCoverageNV">>,
      exts |-> <<>>, minVer |-> 0, maxVer |-> 0],
     [var |-> "PassthroughNV", val |-> 5250, caps |-> <<"GeometryShaderPassthroughNV">>,
      exts |-> <<>>, minVer |-> 0, maxVer |-> 0],
     [var |-> "ViewportRelativeNV", val |-> 5252, caps |-> <<"ShaderViewportMaskNV">>,
      exts |-> <<>>, minVer |-> 0, maxVer |-> 0],
     [var |-> "SecondaryViewportRelativeNV", val |-> 5256, caps |-> <<"ShaderStereoViewNV">>,
      exts |-> <<>>, minVer |-> 0, maxVer |-> 0],
     [var |-> "PerPrimitiveNV", val |-> 5271, caps |-> <<"MeshShadingNV">>,
      exts |-> <<>>, minVer |-> 0, maxVer |-> 0],
     [var |-> "PerViewNV", val |-> 5272, caps |-> <<"MeshShadingNV">>,
      exts |-> <<>>, minVer |-> 0, maxVer |-> 0],
     [var |-> "PerVertexNV", val |-> 5273, caps |-> <<"FragmentBarycentricNV">>,
      exts |-> <<>>, minVer |-> 0, maxVer |-> 0],
     [var |-> "NonUniformEXT", val |-> 5300, caps |-> <<"ShaderNonUniformEXT">>,
      exts |-> <<>>, minVer |-> 0, maxVer |-> 0],
     [var |-> "CountBuffer", val |-> 5634, caps |-> <<>>,
      exts |-> <<>>, minVer |-> 0, maxVer |-> 0],
     [var |-> "UserSemantic", val |-> 5635, caps |-> <<>>,
      exts |-> <<>>, minVer |-> 0, maxVer |-> 0],
     [var |-> "RestrictPointer", val |-> 5355, caps |-> <<"PhysicalStorageBufferAddresses">>,
      exts |-> <<>>, minVer |-> 0, maxVer |-> 0],
     [var |-> "AliasedPointer", val |-> 5356, caps |-> <<"PhysicalStorageBufferAddresses">>,
      exts |-> <<>>, minVer |-> 0, maxVer |-> 0] >>

\* BuiltIn: SPIRVEnums.h lines 668-791, one record per X(...) entry in table order.
DEF_BuiltIn ==
  << [var |-> "Position", val |-> 0, caps |-> <<"Shader">>,
      exts |-> <<>>, minVer |-> 0, maxVer |-> 0],
     [var |-> "PointSize", val |-> 1, caps |-> <<"Shader">>,
      exts |-> <<>>, minVer |-> 0, maxVer |-> 0],
     [var |-> "ClipDistance", val |-> 3, caps |-> <<"ClipDistance">>,
      exts |-> <<>>, minVer |-> 0, maxVer |-> 0],
     [var |-> "CullDistance", val |-> 4, caps |-> <<"CullDistance">>,
      exts |-> <<>>, minVer |-> 0, maxVer |-> 0],
     [var |-> "VertexId", val |-> 5, caps |-> <<"Shader">>,
      exts |-> <<>>, minVer |-> 0, maxVer |-> 0],
     [var |-> "InstanceId", val |-> 6, caps |-> <<"Shader">>,
      exts |-> <<>>, minVer |-> 0, maxVer |-> 0],
     [var |-> "PrimitiveId", val |-> 7, caps |-> <<"Geometry", "Tessellation", "RayTracingNV">>,
      exts |-> <<>>, minVer |-> 0, maxVer |-> 0],
     [var |-> "InvocationId", val |-> 8, caps |-> <<"Geometry", "Tessellation">>,
      exts |-> <<>>, minVer |-> 0, maxVer |-> 0],
     [var |-> "Layer", val |-> 9, caps |-> <<"Geometry">>,
      exts |-> <<>>, minVer |-> 0, maxVer |-> 0],
     [var |-> "ViewportIndex", val |-> 10, caps |-> <<"MultiViewport">>,
      exts |-> <<>>, minVer |-> 0, maxVer |-> 0],
     [var |-> "TessLevelOuter", val |-> 11, caps |-> <<"Tessellation">>,
      exts |-> <<>>, minVer |-> 0, maxVer |-> 0],
     [var |-> "TessLevelInner", val |-> 12, caps |-> <<"Tessellation">>,
      exts |-> <<>>, minVer |-> 0, maxVer |-> 0],
     [var |-> "TessCoord", val |-> 13, caps |-> <<"Tessellation">>,
      exts |-> <<>>, minVer |-> 0, maxVer |-> 0],
     [var |-> "PatchVertices", val |-> 14, caps |-> <<"Tessellation">>,
      exts |-> <<>>, minVer |-> 0, maxVer |-> 0],
     [var |-> "FragCoord", val |-> 15, caps |-> <<"Shader">>,
      exts |-> <<>>, minVer |-> 0, maxVer |-> 0],
     [var |-> "PointCoord", val |-> 16, caps |-> <<"Shader">>,
      exts |-> <<>>, minVer |-> 0, maxVer |-> 0],
     [var |-> "FrontFacing", val |-> 17, caps |-> <<"Shader">>,
      exts |-> <<>>, minVer |-> 0, maxVer |-> 0],
     [var |-> "SampleId", val |-> 18, caps |-> <<"SampleRateShading">>,
      exts |-> <<>>, minVer |-> 0, maxVer |-> 0],
     [var |-> "SamplePosition", val |-> 19, caps |-> <<"SampleRateShading">>,
      exts |-> <<>>, minVer |-> 0, maxVer |-> 0],
     [var |-> "SampleMask", val |-> 20, caps |-> <<"Shader">>,
      exts |-> <<>>, minVer |-> 0, maxVer |-> 0],
     [var |-> "FragDepth", val |-> 22, caps |-> <<"Shader">>,
      exts |-> <<>>, minVer |-> 0, maxVer |-> 0],
     [var |-> "HelperInvocation", val |-> 23, caps |-> <<"Shader">>,
      exts |-> <<>>, minVer |-> 0, maxVer |-> 0],
     [var |-> "NumWorkGroups", val |-> 24, caps |-> <<>>,
      exts |-> <<>>, minVer |-> 0, maxVer |-> 0],
     [var |-> "WorkgroupSize", val |-> 25, caps |-> <<>>,
      exts |-> <<>>, minVer |-> 0, maxVer |-> 0],
     [var |-> "WorkgroupId", val |-> 26, caps |-> <<>>,
      exts |-> <<>>, minVer |-> 0, maxVer |-> 0],
     [var |-> "LocalInvocationId", val |-> 27, caps |-> <<>>,
      exts |-> <<>>, minVer |-> 0, maxVer |-> 0],
     [var |-> "GlobalInvocationId", val |-> 28, caps |-> <<>>,
      exts |-> <<>>, minVer |-> 0, maxVer |-> 0],
     [var |-> "LocalInvocationIndex", val |-> 29, caps |-> <<>>,
      exts |-> <<>>, minVer |-> 0, maxVer |-> 0],
     [var |-> "WorkDim", val |-> 30, caps |-> <<"Kernel">>,
      exts |-> <<>>, minVer |-> 0, maxVer |-> 0],
     [var |-> "GlobalSize", val |-> 31, caps |-> <<"Kernel">>,
      exts |-> <<>>, minVer |-> 0, maxVer |-> 0],
     [var |-> "EnqueuedWorkgroupSize", val |-> 32, caps |-> <<"Kernel">>,
      exts |-> <<>>, minVer |-> 0, maxVer |-> 0],
     [var |-> "GlobalOffset", val |-> 33, caps |-> <<"Kernel">>,
      exts |-> <<>>, minVer |-> 0, maxVer |-> 0],
     [var |-> "GlobalLinearId", val |-> 34, caps |-> <<"Kernel">>,
      exts |-> <<>>, minVer |-> 0, maxVer |-> 0],
     [var |-> "SubgroupSize", val |-> 36, caps |-> <<"Kernel", "GroupNonUniform", "SubgroupBallotKHR">>,
      exts |-> <<>>, minVer |-> 0, maxVer |-> 0],
     [var |-> "SubgroupMaxSize", val |-> 37, caps |-> <<"Kernel">>,
      exts |-> <<>>, minVer |-> 0, maxVer |-> 0],
     [var |-> "NumSubgroups", val |-> 38, caps |-> <<"Kernel", "GroupNonUniform">>,
      exts |-> <<>>, minVer |-> 0, maxVer |-> 0],
     [var |-> "NumEnqueuedSubgroups", val |-> 39, caps |-> <<"Kernel">>,
      exts |-> <<>>, minVer |-> 0, maxVer |-> 0],
     [var |-> "SubgroupId", val |-> 40, caps |-> <<"Kernel", "GroupNonUniform">>,
      exts |-> <<>>, minVer |-> 0, maxVer |-> 0],
     [var |-> "SubgroupLocalInvocationId", val |-> 41, caps |-> <<"Kernel", "GroupNonUniform", "SubgroupBallotKHR">>,
      exts |-> <<>>, minVer |-> 0, maxVer |-> 0],
     [var |-> "VertexIndex", val |-> 42, caps |-> <<"Shader">>,
      exts |-> <<>>, minVer |-> 0, maxVer |-> 0],
     [var |-> "InstanceIndex", val |-> 43, caps |-> <<"Shader">>,
      exts |-> <<>>, minVer |-> 0, maxVer |-> 0],
     [var |-> "SubgroupEqMask", val |-> 4416, caps |-> <<"SubgroupBallotKHR", "GroupNonUniformBallot">>,
      exts |-> <<>>, minVer |-> 0, maxVer |-> 0],
     [var |-> "SubgroupGeMask", val |-> 4417, caps |-> <<"SubgroupBallotKHR", "GroupNonUniformBallot">>,
      exts |-> <<>>, minVer |-> 0, maxVer |-> 0],
     [var |-> "SubgroupGtMask", val |-> 4418, caps |-> <<"SubgroupBallotKHR", "GroupNonUniformBallot">>,
      exts |-> <<>>, minVer |-> 0, maxVer |-> 0],
     [var |-> "SubgroupLeMask", val |-> 4419, caps |-> <<"SubgroupBallotKHR", "GroupNonUniformBallot">>,
      exts |-> <<>>, minVer |-> 0, maxVer |-> 0],
     [var |-> "SubgroupLtMask", val |-> 4420, caps |-> <<"SubgroupBallotKHR", "GroupNonUniformBallot">>,
      exts |-> <<>>, minVer |-> 0, maxVer |-> 0],
     [var |-> "BaseVertex", val |-> 4424, caps |-> <<"DrawParameters">>,
      exts |-> <<>>, minVer |-> 0, maxVer |-> 0],
     [var |-> "BaseInstance", val |-> 4425, caps |-> <<"DrawParameters">>,
      exts |-> <<>>, minVer |-> 0, maxVer |-> 0],
     [var |-> "DrawIndex", val |-> 4426, caps |-> <<"DrawParameters", "MeshShadingNV">>,
      exts |-> <<>>, minVer |-> 0, maxVer |-> 0],
     [var |-> "DeviceIndex", val |-> 4438, caps |-> <<"DeviceGroup">>,
      exts |-> <<>>, minVer |-> 0, maxVer |-> 0],
     [var |-> "ViewIndex", val |-> 4440, caps |-> <<"MultiView">>,
      exts |-> <<>>, minVer |-> 0, maxVer |-> 0],
     [var |-> "BaryCoordNoPerspAMD", val |-> 4492, caps |-> <<>>,
      exts |-> <<>>, minVer |-> 0, maxVer |-> 0],
     [var |-> "BaryCoordNoPerspCentroidAMD", val |-> 4493, caps |-> <<>>,
      exts |-> <<>>, minVer |-> 0, maxVer |-> 0],
     [var |-> "BaryCoordNoPerspSampleAMD", val |-> 4494, caps |-> <<>>,
      exts |-> <<>>, minVer |-> 0, maxVer |-> 0],
     [var |-> "BaryCoordSmoothAMD", val |-> 4495, caps |-> <<>>,
      exts |-> <<>>, minVer |-> 0, maxVer |-> 0],
     [var |-> "BaryCoordSmoothCentroid", val |-> 4496, caps |-> <<>>,
      exts |-> <<>>, minVer |-> 0, maxVer |-> 0],
     [var |-> "BaryCoordSmoothSample", val |-> 4497, caps |-> <<>>,
      exts |-> <<>>, minVer |-> 0, maxVer |-> 0],
     [var |-> "BaryCoordPullModel", val |-> 4498, caps |-> <<>>,
      exts |-> <<>>, minVer |-> 0, maxVer |-> 0],
     [var |-> "FragStencilRefEXT", val |-> 5014, caps |-> <<"StencilExportEXT">>,
      exts |-> <<>>, minVer |-> 0, maxVer |-> 0],
     [var |-> "ViewportMaskNV", val |-> 5253, caps |-> <<"ShaderViewportMaskNV", "MeshShadingNV">>,
      exts |-> <<>>, minVer |-> 0, maxVer |-> 0],
     [var |-> "SecondaryPositionNV", val |-> 5257, caps |-> <<"ShaderStereoViewNV">>,
      exts |-> <<>>, minVer |-> 0, maxVer |-> 0],
     [var |-> "SecondaryViewportMaskNV", val |-> 5258, caps |-> <<"ShaderStereoViewNV">>,
      exts |-> <<>>, minVer |-> 0, maxVer |-> 0],
     [var |-> "PositionPerViewNV", val |-> 5261, caps |-> <<"PerViewAttributesNV", "MeshShadingNV">>,
      exts |-> <<>>, minVer |-> 0, maxVer |-> 0],
     [var |-> "ViewportMaskPerViewNV", val |-> 5262, caps |-> <<"PerViewAttributesNV", "MeshShadingNV">>,
      exts |-> <<>>, minVer |-> 0, maxVer |-> 0],
     [var |-> "FullyCoveredEXT", val |-> 5264, caps |-> <<"FragmentFullyCoveredEXT">>,
      exts |-> <<>>, minVer |-> 0, maxVer |-> 0],
     [var |-> "TaskCountNV", val |-> 5274, caps |-> <<"MeshShadingNV">>,
      exts |-> <<>>, minVer |-> 0, maxVer |-> 0],
     [var |-> "PrimitiveCountNV", val |-> 5275, caps |-> <<"MeshShadingNV">>,
      exts |-> <<>>, minVer |-> 0, maxVer |-> 0],
     [var |-> "PrimitiveIndicesNV", val |-> 5276, caps |-> <<"MeshShadingNV">>,
      exts |-> <<>>, minVer |-> 0, maxVer |-> 0],
     [var |-> "ClipDistancePerViewNV", val |-> 5277, caps |-> <<"MeshShadingNV">>,
      exts |-> <<>>, minVer |-> 0, maxVer |-> 0],
     [var |-> "CullDistancePerViewNV", val |-> 5278, caps |-> <<"MeshShadingNV">>,
      exts |-> <<>>, minVer |-> 0, maxVer |-> 0],
     [var |-> "LayerPerViewNV", val |-> 5279, caps |-> <<"MeshShadingNV">>,
      exts |-> <<>>, minVer |-> 0, maxVer |-> 0],
     [var |-> "MeshViewCountNV", val |-> 5280, caps |-> <<"MeshShadingNV">>,
      exts |-> <<>>, minVer |-> 0, maxVer |-> 0],
     [var |-> "MeshViewIndices", val |-> 5281, caps |-> <<"MeshShadingNV">>,
      exts |-> <<>>, minVer |-> 0, maxVer |-> 0],
     [var |-> "BaryCoordNV", val |-> 5286, caps |-> <<"FragmentBarycentricNV">>,
      exts |-> <<>>, minVer |-> 0, maxVer |-> 0],
     [var |-> "BaryCoordNoPerspNV", val |-> 5287, caps |-> <<"FragmentBarycentricNV">>,
      exts |-> <<>>, minVer |-> 0, maxVer |-> 0],
     [var |-> "FragSizeEXT", val |-> 5292, caps |-> <<"FragmentDensityEXT">>,
      exts |-> <<>>, minVer |-> 0, maxVer |-> 0],
     [var |-> "FragInvocationCountEXT", val |-> 5293, caps |-> <<"FragmentDensityEXT">>,
      exts |-> <<>>, minVer |-> 0, maxVer |-> 0],
     [var |-> "LaunchIdNV", val |-> 5319, caps |-> <<"RayTracingNV">>,
      exts |-> <<>>, minVer |-> 0, maxVer |-> 0],
     [var |-> "LaunchSizeNV", val |-> 5320, caps |-> <<"RayTracingNV">>,
      exts |-> <<>>, minVer |-> 0, maxVer |-> 0],
     [var |-> "WorldRayOriginNV", val |-> 5321, caps |-> <<"RayTracingNV">>,
      exts |-> <<>>, minVer |-> 0, maxVer |-> 0],
     [var |-> "WorldRayDirectionNV", val |-> 5322, caps |-> <<"RayTracingNV">>,
      exts |-> <<>>, minVer |-> 0, maxVer |-> 0],
     [var |-> "ObjectRayOriginNV", val |-> 5323, caps |-> <<"RayTracingNV">>,
      exts |-> <<>>, minVer |-> 0, maxVer |-> 0],
     [var |-> "ObjectRayDirectionNV", val |-> 5324, caps |-> <<"RayTracingNV">>,
      exts |-> <<>>, minVer |-> 0, maxVer |-> 0],
     [var |-> "RayTminNV", val |-> 5325, caps |-> <<"RayTracingNV">>,
      exts |-> <<>>, minVer |-> 0, maxVer |-> 0],
     [var |-> "RayTmaxNV", val |-> 5326, caps |-> <<"RayTracingNV">>,
      exts |-> <<>>, minVer |-> 0, maxVer |-> 0],
     [var |-> "InstanceCustomIndexNV", val |-> 5327, caps |-> <<"RayTracingNV">>,
      exts |-> <<>>, minVer |-> 0, maxVer |-> 0],
     [var |-> "ObjectToWorldNV", val |-> 5330, caps |-> <<"RayTracingNV">>,
      exts |-> <<>>, minVer |-> 0, maxVer |-> 0],
     [var |-> "WorldToObjectNV", val |-> 5331, caps |-> <<"RayTracingNV">>,
      exts |-> <<>>, minVer |-> 0, maxVer |-> 0],
     [var |-> "HitTNV", val |-> 5332, caps |-> <<"RayTracingNV">>,
      exts |-> <<>>, minVer |-> 0, maxVer |-> 0],
     [var |-> "HitKindNV", val |-> 5333, caps |-> <<"RayTracingNV">>,
      exts |-> <<>>, minVer |-> 0, maxVer |-> 0],
     [var |-> "IncomingRayFlagsNV", val |-> 5351, caps |-> <<"RayTracingNV">>,
      exts |-> <<>>, minVer |-> 0, maxVer |-> 0] >>

(***************************************************************************)
(* Table lookups.  MAKE_ENUM gives every entry its numeric value; the      *)
(* per-entry columns are Caps, Exts, MinVer, MaxVer.                       *)
(***************************************************************************)
Entry(tbl, val) == tbl[CHOOSE i \in 1..Len(tbl) : tbl[i].val = val]

EntryByName(tbl, var) == tbl[CHOOSE i \in 1..Len(tbl) : tbl[i].var = var]

Vals(tbl) == {tbl[i].val : i \in 1..Len(tbl)}

Val(tbl, var) == EntryByName(tbl, var).val

\* The Capability enum, by symbolic name, in table order.
CapabilityOrder == [i \in 1..Len(DEF_Capability) |-> DEF_Capability[i].var]

Capability == Range(CapabilityOrder)

\* Variant: Matrix lists Shader, which lists Matrix.
CapDepsCyclic ==
  [c \in Capability |->
     IF c = "Matrix" THEN <<"Shader">>
     ELSE EntryByName(DEF_Capability, c).caps]

\* Caps column of DEF_Capability: the direct prerequisites of a capability.
CapDeps == [c \in Capability |-> EntryByName(DEF_Capability, c).caps]

CapVal == [c \in Capability |-> EntryByName(DEF_Capability, c).val]

\* The extensions named by the tables and by the subtarget.
ExtensionOrder ==
  <<"SPV_KHR_no_integer_wrap_decoration", "SPV_KHR_shader_ballot",
    "SPV_KHR_shader_draw_parameters", "SPV_KHR_subgroup_vote",
    "SPV_KHR_16bit_storeage", "SPV_KHR_device_group",
    "SPV_KHR_multiview", "SPV_KHR_variable_pointers",
    "SPV_KHR_shader_atomic_counter_ops",
    "SPV_KHR_post_depth_coverage", "SPV_KHR_8bit_storage",
    "SPV_KHR_float_controls", "SPV_AMD_shader_trinary_minmax">>

Extension == Range(ExtensionOrder)

(***************************************************************************)
(* Transitive prerequisites, as a least fixed point over the table.  This  *)
(* is the reference the closure routines are compared against; it is not   *)
(* used by the modelled code.                                              *)
(***************************************************************************)
RECURSIVE ReachFrom(_)
ReachFrom(S) ==
  LET T == S \cup UNION {Range(CapDeps[c]) : c \in S}
  IN  IF T = S THEN S ELSE ReachFrom(T)

ClosureOf == [c \in Capability |-> ReachFrom({c})]

TransitivePrereqs == [c \in Capability |-> ReachFrom(Range(CapDeps[c]))]

ClosureOfSet(S) == UNION {ClosureOf[c] : c \in S}

IsClosed(S) == \A c \in S : Range(CapDeps[c]) \subseteq S

(***************************************************************************)
(* SPIRVSubtarget.cpp                                                      *)
(***************************************************************************)
\* static uint32_t v(uint8_t Maj, uint8_t Min, uint8_t Rev): the three
\* uint8_t components occupy disjoint bytes, so the 32-bit result never
\* wraps.
v(Maj, Min, Rev) == ((Maj % 256) * 65536) + ((Min % 256) * 256) + (Rev % 256)

\* static bool isAtLeastVer(uint32_t target, uint32_t verToCompareTo)
isAtLeastVer(target, verToCompareTo) == target = 0 \/ target >= verToCompareTo

\* A Triple as far as the subtarget reads it: the environment, whether the
\* architecture is the logical-addressing one, and the Has<Cap> features
\* that ParseSubtargetFeatures switches on from the feature string.
isVulkanEnvironment(TT) == TT.env = "Vulkan"

isOpenCLEnvironment(TT) == TT.env = "OpenCL"

isSPIRVLogical(TT) == TT.logical

computeTargetSPIRVVersion(TT) == v(1, 4, 0)

computeTargetOpenCLVersion(TT) ==
  IF isVulkanEnvironment(TT) THEN 0 ELSE v(2, 2, 0)

computeTargetVulkanVersion(TT) ==
  IF isVulkanEnvironment(TT) THEN v(1, 1, 0) ELSE 0

computeOpenCLImageSupport(TT) == TRUE

computeOpenCLFullProfile(TT) == TRUE

\* initSubtargetDependencies: every Has<Var> is cleared, then the feature
\* string switches flags on.  Has is the set of capabilities whose flag is
\* true.
initSubtargetDependencies(TT) == TT.features

\* initAvailableExtensions
initAvailableExtensions(TT) ==
  IF isVulkanEnvironment(TT) THEN {}
  ELSE {"SPV_KHR_no_integer_wrap_decoration"}

canUseExtensionIn(exts, e) == e \in exts

\* initAvailableExtInstSets (reads usesVulkanEnv and availableExtensions)
initAvailableExtInstSets(usesVulkanEnv, availableExtensions) ==
  (IF usesVulkanEnv THEN {"GLSL_std_450"} ELSE {"OpenCL_std"})
  \cup (IF canUseExtensionIn(availableExtensions,
                            "SPV_AMD_shader_trinary_minmax")
        THEN {"SPV_AMD_shader_trinary_minmax"} ELSE {})

\* initAvailableCapabilities: the flags the environment policy switches on,
\* added to the flags already set.
initAvailableCapabilities(TT, s) ==
  IF isVulkanEnvironment(TT)
  THEN [s EXCEPT !.Has = @ \cup
          {"Matrix", "Shader", "InputAttachment", "Sampled1D", "Image1D",
           "SampledBuffer", "ImageBuffer", "ImageQuery",
           "DerivativeControl"}]
  ELSE [s EXCEPT !.Has = @ \cup
          {"Addresses", "Float16Buffer", "Int16", "Int8", "Kernel",
           "Linkage", "Vector16"}
          \cup (IF s.openCLFullProfile THEN {"Int64"} ELSE {})
          \cup (IF s.openCLImageSupport
                THEN {"ImageBasic", "LiteralSampler", "Image1D",
                      "SampledBuffer", "ImageBuffer"}
                     \cup (IF isAtLeastVer(s.targetOpenCLVersion, v(2, 0, 0))
                           THEN {"ImageReadWrite"} ELSE {})
                ELSE {})
          \cup (IF isAtLeastVer(s.targetSPIRVVersion, v(1, 1, 0))
                   /\ isAtLeastVer(s.targetOpenCLVersion, v(2, 2, 0))
                THEN {"PipeStorage"} ELSE {})
          \cup {"Float16", "Float64"}]

\* The order in which a list of direct prerequisites is walked.  The code
\* walks the ArrayRef front to back ("fwd"); "rev" is the opposite walk.
VisitOrder(Caps, dir) ==
  IF dir = "fwd" THEN Caps
  ELSE [i \in 1..Len(Caps) |-> Caps[Len(Caps) + 1 - i]]

\* enableFeatureCapability / enableFeatureCapabilities: the closure routine
\* over the Has flags and availableCaps.
RECURSIVE enableFeatureCapability(_, _, _)
RECURSIVE enableFeatureCapabilities(_, _, _)
\* Variant: the capability is inserted but its flag is left as it was.
enableFeatureCapabilityNoFlag(s, Cap, visit) ==
  IF Cap \notin s.availableCaps
  THEN enableFeatureCapabilities(
         [s EXCEPT !.availableCaps = @ \cup {Cap}],
         VisitOrder(CapDeps[Cap], visit), visit)
  ELSE s

enableFeatureCapability(s, Cap, visit) ==
  IF Cap \notin s.Has
  THEN LET s1 == [s EXCEPT !.Has = @ \cup {Cap}]
       IN  IF Cap \notin s1.availableCaps
           THEN enableFeatureCapabilities(
                  [s1 EXCEPT !.availableCaps = @ \cup {Cap}],
                  VisitOrder(CapDeps[Cap], visit), visit)
           ELSE s1
  ELSE s

\* Variant: only the first prerequisite visited is enabled.
enableFeatureCapabilitiesFirstOnly(s, Caps, visit) ==
  IF Caps = <<>> THEN s
  ELSE enableFeatureCapability(s, Head(Caps), visit)

enableFeatureCapabilities(s, Caps, visit) ==
  IF Caps = <<>> THEN s
  ELSE enableFeatureCapabilities(
         enableFeatureCapability(s, Head(Caps), visit), Tail(Caps), visit)

\* The same routine over a prerequisite table G given as an argument, with
\* a record of the calls it makes: t.s is the subtarget, t.inserted the
\* capabilities put into availableCaps and t.expanded the capabilities whose
\* prerequisite list was walked, each in the order it happened.
RECURSIVE enableFeatureCapabilityOn(_, _, _, _)
RECURSIVE enableFeatureCapabilitiesOn(_, _, _, _)
\* Variant: neither the flag nor the set is tested before the insertion.
enableFeatureCapabilityOnNoMemo(G, t, Cap, visit) ==
  enableFeatureCapabilitiesOn(
    G,
    [t EXCEPT !.s.Has = @ \cup {Cap},
              !.s.availableCaps = @ \cup {Cap},
              !.inserted = Append(@, Cap),
              !.expanded = Append(@, Cap)],
    VisitOrder(G[Cap], visit), visit)

enableFeatureCapabilityOn(G, t, Cap, visit) ==
  IF Cap \notin t.s.Has
  THEN LET t1 == [t EXCEPT !.s.Has = @ \cup {Cap}]
       IN  IF Cap \notin t1.s.availableCaps
           THEN enableFeatureCapabilitiesOn(
                  G,
                  [t1 EXCEPT !.s.availableCaps = @ \cup {Cap},
                             !.inserted = Append(@, Cap),
                             !.expanded = Append(@, Cap)],
                  VisitOrder(G[Cap], visit), visit)
           ELSE t1
  ELSE t

enableFeatureCapabilitiesOn(G, t, Caps, visit) ==
  IF Caps = <<>> THEN t
  ELSE enableFeatureCapabilitiesOn(
         G, enableFeatureCapabilityOn(G, t, Head(Caps), visit), Tail(Caps),
         visit)

\* Variant: a flagged capability is inserted without its prerequisites.
updateCaseNoPrereqs(s, Var) ==
  IF Var \in s.Has THEN [s EXCEPT !.availableCaps = @ \cup {Var}]
  ELSE IF s.availableCaps # {} /\ Var \in s.availableCaps
       THEN [s EXCEPT !.availableCaps = @ \ {Var}]
       ELSE s

\* updateCapabilitiesFromFeatures: one MAKE_CAP_FEATURE_CASE per table
\* entry, in table order.  erase(Var) of a capability that is not in
\* availableCaps leaves the set as it is.
updateCase(s, Var) ==
  IF Var \in s.Has
  THEN IF Var \notin s.availableCaps
       THEN enableFeatureCapabilities(
              [s EXCEPT !.availableCaps = @ \cup {Var}],
              CapDeps[Var], "fwd")
       ELSE s
  ELSE IF s.availableCaps # {} /\ Var \in s.availableCaps
       THEN [s EXCEPT !.availableCaps = @ \ {Var}]
       ELSE s

\* The cases of table entries lo..hi, in table order: the state left by
\* the cases lo..mid is computed first (the test on it always holds), then
\* the cases mid+1..hi run on it.
RECURSIVE updateRange(_, _, _)
updateRange(s, lo, hi) ==
  IF lo = hi THEN updateCase(s, CapabilityOrder[lo])
  ELSE LET mid == (lo + hi) \div 2
           s1 == updateRange(s, lo, mid)
       IN  IF s1 = s1 THEN updateRange(s1, mid + 1, hi) ELSE s1

updateCapabilitiesFromFeatures(s) == updateRange(s, 1, Len(CapabilityOrder))

\* SPIRVSubtarget::SPIRVSubtarget, with the SPIR-V version the constructor
\* stores passed in.  The base class keeps the triple and the feature
\* string the subtarget was made for.
NewSubtarget(TT, spirvVersion) ==
  LET exts == initAvailableExtensions(TT)
      s0 == [built |-> TRUE,
             triple |-> TT,
             usesLogicalAddressing |-> isSPIRVLogical(TT),
             usesVulkanEnv |-> isVulkanEnvironment(TT),
             usesOpenCLEnv |-> isOpenCLEnvironment(TT),
             targetSPIRVVersion |-> spirvVersion,
             targetOpenCLVersion |-> computeTargetOpenCLVersion(TT),
             targetVulkanVersion |-> computeTargetVulkanVersion(TT),
             openCLFullProfile |-> computeOpenCLFullProfile(TT),
             openCLImageSupport |-> computeOpenCLImageSupport(TT),
             Has |-> initSubtargetDependencies(TT),
             availableCaps |-> {},
             availableExtensions |-> exts,
             availableExtInstSets |->
               initAvailableExtInstSets(isVulkanEnvironment(TT), exts)]
  IN  updateCapabilitiesFromFeatures(initAvailableCapabilities(TT, s0))

Unbuilt ==
  [built |-> FALSE,
   triple |-> [env |-> "Unknown", logical |-> FALSE, features |-> {}],
   usesLogicalAddressing |-> FALSE,
   usesVulkanEnv |-> FALSE, usesOpenCLEnv |-> FALSE,
   targetSPIRVVersion |-> 0, targetOpenCLVersion |-> 0,
   targetVulkanVersion |-> 0, openCLFullProfile |-> FALSE,
   openCLImageSupport |-> FALSE, Has |-> {}, availableCaps |-> {},
   availableExtensions |-> {}, availableExtInstSets |-> {}]

\* Variant: every capability passes for available.
canUseCapabilityAny(s, c) == c \in Capability

canUseCapability(s, c) == c \in s.availableCaps

\* Variant: every extension passes for available.
canUseExtensionAny(s, e) == e \in Extension

canUseExtension(s, e) == e \in s.availableExtensions

canUseExtInstSet(s, e) == e \in s.availableExtInstSets

isLogicalAddressing(s) == s.usesLogicalAddressing

isKernel(s) == s.usesOpenCLEnv \/ ~s.usesLogicalAddressing

\* Variant: a subtarget is a shader one exactly when it is not a kernel one.
isShaderUnlessKernel(s) == ~(s.usesOpenCLEnv \/ ~s.usesLogicalAddressing)

isShader(s) == s.usesVulkanEnv \/ s.usesLogicalAddressing

canDirectlyComparePointers(s) == isAtLeastVer(s.targetSPIRVVersion, v(1, 4, 0))

(***************************************************************************)
(* Requirement specs and the SPIRVRequirementHandler (the Requirement      *)
(* Accumulator).  Modelled from the specification, sections 3, 4.1, 4.2.   *)
(***************************************************************************)
\* A requirement spec: alternative capability sets in declared order (each
\* an ordered list), required extensions, and the version window in which
\* the extension is already part of the core format.
Requirement(alts, exts, minVer, maxVer) ==
  [alts |-> alts, exts |-> exts, minVer |-> minVer, maxVer |-> maxVer]

\* get<Enum>Requirements(i, ST): the requirement spec of enum value i.  Each
\* capability of the Caps column is one alternative; an empty Caps column
\* is the single alternative that needs nothing.  Only table entries carry
\* a requirement spec: a number that is no entry of the table requires
\* nothing.
getEnumRequirements(tbl, i) ==
  IF i \notin Vals(tbl) THEN Requirement(<< <<>> >>, <<>>, 0, 0)
  ELSE
  LET e == Entry(tbl, i)
  IN  Requirement(
        IF e.caps = <<>> THEN << <<>> >>
        ELSE [k \in 1..Len(e.caps) |-> <<e.caps[k]>>],
        e.exts, e.minVer, e.maxVer)

\* The requirement made of one capability (addRequirements(Capability)).
getCapabilityRequirement(c) == Requirement(<< <<c>> >>, <<>>, 0, 0)

\* A fresh SPIRVRequirementHandler: insertion-ordered capability set,
\* insertion-ordered extension set, and the fatal error raised, if any.
NoError == "none"

NewRequirementHandler == [caps |-> <<>>, exts |-> <<>>, err |-> NoError]

\* The accumulators a default-constructed handler may start as.
FreshHandlers == {NewRequirementHandler}

\* 4.1 enableCapability(c, enabledSet, graph)
RECURSIVE enableCapability(_, _)
RECURSIVE enableCapabilities(_, _)
\* Variant: the capability is inserted without its prerequisites.
enableCapabilityNoPrereqs(c, enabled) ==
  IF Contains(enabled, c) THEN enabled ELSE Append(enabled, c)

\* Variant: no membership test before the insertion.
enableCapabilityNoMemo(c, enabled) ==
  LET withDeps == [k \in 1..Len(CapDeps[c]) |-> CapDeps[c][k]]
  IN  Append(enabled, c) \o withDeps

enableCapability(c, enabled) ==
  IF Contains(enabled, c) THEN enabled
  ELSE enableCapabilities(CapDeps[c], Append(enabled, c))

enableCapabilities(cs, enabled) ==
  IF cs = <<>> THEN enabled
  ELSE enableCapabilities(Tail(cs), enableCapability(Head(cs), enabled))

\* 4.2 addCapability(c)
addCapability(h, c) ==
  IF h.err # NoError THEN h
  ELSE [h EXCEPT !.caps = enableCapability(c, @)]

\* The version window [minVer, maxVer], 0 meaning unbounded on that side.
InVersionWindow(ver, minVer, maxVer) ==
  (minVer = 0 \/ ver >= minVer) /\ (maxVer = 0 \/ ver <= maxVer)

\* The order in which the alternatives of a requirement are scanned.
AltScan(alts) == [k \in 1..Len(alts) |-> k]

AltSatisfied(alt, enabled) == Range(alt) \subseteq Range(enabled)

AltAvailable(alt, s) == \A c \in Range(alt) : canUseCapability(s, c)

\* The capability half of addRequirements.
addRequirementCaps(h, req, s) ==
  IF \E k \in 1..Len(req.alts) : AltSatisfied(req.alts[k], h.caps) THEN h
  ELSE LET scan == AltScan(req.alts)
           ok == {j \in 1..Len(scan) : AltAvailable(req.alts[scan[j]], s)}
       IN  IF ok = {}
           THEN [h EXCEPT !.err = "UnmetCapabilityRequirement"]
           ELSE LET j == CHOOSE j \in ok : \A j2 \in ok : j <= j2
                IN  [h EXCEPT !.caps =
                       enableCapabilities(req.alts[scan[j]], @)]

\* The extension half of addRequirements.
RECURSIVE addExtensions(_, _, _)
\* Variant: the extensions are kept in a list, not in a set.
addExtensionsNoMemo(h, exts, s) ==
  IF exts = <<>> \/ h.err # NoError THEN h
  ELSE IF \E k \in 1..Len(exts) : ~canUseExtension(s, exts[k])
       THEN [h EXCEPT !.err = "UnmetExtensionRequirement"]
       ELSE [h EXCEPT !.exts = @ \o exts]

addExtensions(h, exts, s) ==
  IF exts = <<>> \/ h.err # NoError THEN h
  ELSE IF ~canUseExtension(s, Head(exts))
       THEN [h EXCEPT !.err = "UnmetExtensionRequirement"]
       ELSE addExtensions(
              IF Contains(h.exts, Head(exts)) THEN h
              ELSE [h EXCEPT !.exts = Append(@, Head(exts))],
              Tail(exts), s)

\* Variant: an already satisfied alternative ends the whole operation.
addRequirementsSkipWhenSatisfied(h, req, s) ==
  IF h.err # NoError THEN h
  ELSE IF \E k \in 1..Len(req.alts) : AltSatisfied(req.alts[k], h.caps)
       THEN h
       ELSE LET h1 == addRequirementCaps(h, req, s)
            IN  IF h1.err # NoError THEN h1
                ELSE IF InVersionWindow(s.targetSPIRVVersion, req.minVer,
                                        req.maxVer)
                     THEN h1
                     ELSE addExtensions(h1, req.exts, s)

\* 4.2 addRequirements(alternativeSets, extensions, minVersion, maxVersion)
addRequirements(h, req, s) ==
  IF h.err # NoError THEN h
  ELSE LET h1 == addRequirementCaps(h, req, s)
       IN  IF h1.err # NoError THEN h1
           ELSE IF InVersionWindow(s.targetSPIRVVersion, req.minVer,
                                   req.maxVer)
                THEN h1
                ELSE addExtensions(h1, req.exts, s)

getMinimalCapabilities(h) == h.caps

getExtensions(h) == h.exts

(***************************************************************************)
(* SPIRVAddRequirementsPass.cpp: the instruction requirement mapper.       *)
(* A MachineInstr is [opcode, ops]; getOperand(k) is ops[k + 1].  Operands *)
(* are integers: an immediate is its value, a register its virtual         *)
(* register number.                                                        *)
(***************************************************************************)
Instr(opcode, ops) == [opcode |-> opcode, ops |-> ops]

getOpcode(MI) == MI.opcode

getNumOperands(MI) == Len(MI.ops)

getOperand(MI, k) == MI.ops[k + 1]

\* MachineRegisterInfo::getVRegDef(reg)->getOpcode(): the opcode of the
\* instruction defining a virtual register of the surrounding program.
\* The registry used here defines register 1 by a pointer type, register 2
\* by an integer type.
VRegDef == <<"OpTypePointer", "OpTypeInt">>

getVRegDefOpcode(reg) == VRegDef[reg]

\* Variant: the addressing model of the subtarget is not consulted.
addVariablePtrInstrReqsAnyAddressing(MI, reqs, s) ==
  IF getVRegDefOpcode(getOperand(MI, 1)) = "OpTypePointer"
  THEN addCapability(reqs, "VariablePointers")
  ELSE reqs

\* addVariablePtrInstrReqs
addVariablePtrInstrReqs(MI, reqs, s) ==
  IF isLogicalAddressing(s)
     /\ getVRegDefOpcode(getOperand(MI, 1)) = "OpTypePointer"
  THEN addCapability(reqs, "VariablePointers")
  ELSE reqs

\* Variant: the built-in operand of a BuiltIn decoration is not looked up.
addOpDecorateReqsKindOnly(MI, decIndex, reqs, s) ==
  addRequirements(
    reqs, getEnumRequirements(DEF_Decoration, getOperand(MI, decIndex)), s)

\* Variant: the operand after the kind is looked up as a built-in whatever
\* the kind.
addOpDecorateReqsAlwaysBuiltIn(MI, decIndex, reqs, s) ==
  LET decOp == getOperand(MI, decIndex)
      r1 == addRequirements(reqs, getEnumRequirements(DEF_Decoration, decOp),
                            s)
  IN  IF getNumOperands(MI) > decIndex + 1
      THEN addRequirements(
             r1,
             getEnumRequirements(DEF_BuiltIn, getOperand(MI, decIndex + 1)),
             s)
      ELSE r1

\* addOpDecorateReqs
addOpDecorateReqs(MI, decIndex, reqs, s) ==
  LET decOp == getOperand(MI, decIndex)
      r1 == addRequirements(reqs, getEnumRequirements(DEF_Decoration, decOp),
                            s)
  IN  IF decOp = Val(DEF_Decoration, "BuiltIn")
      THEN addRequirements(
             r1,
             getEnumRequirements(DEF_BuiltIn, getOperand(MI, decIndex + 1)),
             s)
      ELSE r1

\* Variant: a 2D image requests ImageMSArray only when it is also arrayed.
addImageDimReqsArrayedMS(dim, isArrayed, isMultisampled, noSampler, reqs, s) ==
  LET req(c) == addRequirements(reqs, getCapabilityRequirement(c), s)
  IN  CASE dim = Val(DEF_Dim, "DIM_1D") ->
             req(IF noSampler THEN "Image1D" ELSE "Sampled1D")
        [] dim = Val(DEF_Dim, "DIM_2D") ->
             IF isMultisampled /\ noSampler /\ isArrayed
             THEN req("ImageMSArray")
             ELSE reqs
        [] dim = Val(DEF_Dim, "DIM_3D") -> reqs
        [] dim = Val(DEF_Dim, "DIM_Cube") ->
             IF isArrayed
             THEN addRequirements(
                    req("Shader"),
                    getCapabilityRequirement(
                      IF noSampler THEN "ImageCubeArray"
                      ELSE "SampledCubeArray"), s)
             ELSE req("Shader")
        [] dim = Val(DEF_Dim, "DIM_Rect") ->
             req(IF noSampler THEN "ImageRect" ELSE "SampledRect")
        [] dim = Val(DEF_Dim, "DIM_Buffer") ->
             req(IF noSampler THEN "ImageBuffer" ELSE "SampledBuffer")
        [] dim = Val(DEF_Dim, "DIM_SubpassData") -> req("InputAttachment")
        [] OTHER -> reqs

\* The dimensionality switch of addOpTypeImageReqs.
addImageDimReqs(dim, isArrayed, isMultisampled, noSampler, reqs, s) ==
  LET req(c) == addRequirements(reqs, getCapabilityRequirement(c), s)
  IN  CASE dim = Val(DEF_Dim, "DIM_1D") ->
             req(IF noSampler THEN "Image1D" ELSE "Sampled1D")
        [] dim = Val(DEF_Dim, "DIM_2D") ->
             IF isMultisampled /\ noSampler THEN req("ImageMSArray")
             ELSE reqs
        [] dim = Val(DEF_Dim, "DIM_3D") -> reqs
        [] dim = Val(DEF_Dim, "DIM_Cube") ->
             IF isArrayed
             THEN addRequirements(
                    req("Shader"),
                    getCapabilityRequirement(
                      IF noSampler THEN "ImageCubeArray"
                      ELSE "SampledCubeArray"), s)
             ELSE req("Shader")
        [] dim = Val(DEF_Dim, "DIM_Rect") ->
             req(IF noSampler THEN "ImageRect" ELSE "SampledRect")
        [] dim = Val(DEF_Dim, "DIM_Buffer") ->
             req(IF noSampler THEN "ImageBuffer" ELSE "SampledBuffer")
        [] dim = Val(DEF_Dim, "DIM_SubpassData") -> req("InputAttachment")
        [] OTHER -> reqs

\* What an operand slot past the end of the operand list may hold in a
\* build without assertions: any 32-bit number.  One number stands for
\* each case the reads of addOpTypeImageReqs tell apart: the flags 1 and
\* 2 and neither, the seven Dim values and none of them, an image format
\* that needs nothing (Unknown = 0), Shader (Rgba32f = 1) or
\* StorageImageExtendedFormats (Rg32f = 6, R8ui = 39), and a number that
\* is no image format.
NoEnumValue == 2099410789

StrayOperand == {0, 1, 2, 3, 4, 5, 6, 39, NoEnumValue}

\* The values MI.getOperand(k) may yield: the operand, or, past the end of
\* the operand list, whatever the slot holds.
OperandRead(MI, k) ==
  IF k < getNumOperands(MI) THEN {getOperand(MI, k)} ELSE StrayOperand

\* addOpTypeImageReqs past its operand-count assertion, on the values its
\* operand reads yielded: the image format first, then the dimensionality
\* switch, then the kernel rule.  Operand 8 is read only when the operand
\* count says it is there.
addOpTypeImageReqsBody(MI, read, reqs, s) ==
  LET r1 == addRequirements(
              reqs, getEnumRequirements(DEF_ImageFormat, read.imgFormat), s)
      r2 == addImageDimReqs(read.dim, read.isArrayed, read.isMultisampled,
                            read.noSampler, r1, s)
  IN  IF isKernel(s)
      THEN IF getNumOperands(MI) > 8
              /\ getOperand(MI, 8) = Val(DEF_AccessQualifier, "ReadWrite")
           THEN addRequirements(r2, getCapabilityRequirement("ImageReadWrite"),
                                s)
           ELSE addRequirements(r2, getCapabilityRequirement("ImageBasic"), s)
      ELSE r2

\* addOpTypeImageReqs: with assertions the operand count is checked first
\* and fewer than 8 operands abort; without them operands 7, 4, 5, 6 and 2
\* are read whatever their slots hold.
addOpTypeImageReqs(MI, reqs, s) ==
  (IF getNumOperands(MI) >= 8 THEN {}
   ELSE {[reqs EXCEPT !.err = "MalformedInstruction"]})
  \cup {addOpTypeImageReqsBody(MI, read, reqs, s) :
          read \in [imgFormat : OperandRead(MI, 7),
                    isArrayed : {x = 1 : x \in OperandRead(MI, 4)},
                    isMultisampled : {x = 1 : x \in OperandRead(MI, 5)},
                    noSampler : {x = 2 : x \in OperandRead(MI, 6)},
                    dim : OperandRead(MI, 2)]}

\* Variant: the width is read from operand 0, the result register.
addOpTypeIntReqsOperand0(MI, reqs) ==
  LET bitWidth == getOperand(MI, 0)
  IN  IF bitWidth = 64 THEN addCapability(reqs, "Int64")
      ELSE IF bitWidth = 16 THEN addCapability(reqs, "Int16")
      ELSE IF bitWidth = 8 THEN addCapability(reqs, "Int8")
      ELSE reqs

\* case SPIRV::OpTypeInt
addOpTypeIntReqs(MI, reqs) ==
  LET bitWidth == getOperand(MI, 1)
  IN  IF bitWidth = 64 THEN addCapability(reqs, "Int64")
      ELSE IF bitWidth = 16 THEN addCapability(reqs, "Int16")
      ELSE IF bitWidth = 8 THEN addCapability(reqs, "Int8")
      ELSE reqs

\* case SPIRV::OpTypeFloat
addOpTypeFloatReqs(MI, reqs) ==
  LET bitWidth == getOperand(MI, 1)
  IN  IF bitWidth = 64 THEN addCapability(reqs, "Float64")
      ELSE IF bitWidth = 16 THEN addCapability(reqs, "Float16")
      ELSE reqs

\* Variant: only the 16-component vector requests Vector16.
addOpTypeVectorReqsOnly16(MI, reqs) ==
  LET numComponents == getOperand(MI, 2)
  IN  IF numComponents = 16 THEN addCapability(reqs, "Vector16") ELSE reqs

\* case SPIRV::OpTypeVector
addOpTypeVectorReqs(MI, reqs) ==
  LET numComponents == getOperand(MI, 2)
  IN  IF numComponents = 8 \/ numComponents = 16
      THEN addCapability(reqs, "Vector16")
      ELSE reqs

\* Variant: a pointer type also requests VariablePointers under logical
\* addressing.
addOpTypePointerReqsVariablePtr(MI, reqs, s) ==
  LET r1 == addRequirements(
              reqs, getEnumRequirements(DEF_StorageClass, getOperand(MI, 1)),
              s)
  IN  IF isLogicalAddressing(s) THEN addCapability(r1, "VariablePointers")
      ELSE r1

\* case SPIRV::OpTypePointer
addOpTypePointerReqs(MI, reqs, s) ==
  addRequirements(
    reqs, getEnumRequirements(DEF_StorageClass, getOperand(MI, 1)), s)

\* addInstrRequirements for every opcode but OpTypeImage.
addInstrRequirementsSwitch(MI, reqs, s) ==
  LET op == getOpcode(MI)
  IN  CASE op = "OpMemoryModel" ->
             addRequirements(
               addRequirements(
                 reqs,
                 getEnumRequirements(DEF_AddressingModel, getOperand(MI, 0)),
                 s),
               getEnumRequirements(DEF_MemoryModel, getOperand(MI, 1)), s)
        [] op = "OpEntryPoint" ->
             addRequirements(
               reqs,
               getEnumRequirements(DEF_ExecutionModel, getOperand(MI, 0)), s)
        [] op \in {"OpExecutionMode", "OpExecutionModeId"} ->
             addRequirements(
               reqs,
               getEnumRequirements(DEF_ExecutionMode, getOperand(MI, 1)), s)
        [] op = "OpTypeMatrix" -> addCapability(reqs, "Matrix")
        [] op = "OpTypeInt" -> addOpTypeIntReqs(MI, reqs)
        [] op = "OpTypeFloat" -> addOpTypeFloatReqs(MI, reqs)
        [] op = "OpTypeVector" -> addOpTypeVectorReqs(MI, reqs)
        [] op = "OpTypePointer" -> addOpTypePointerReqs(MI, reqs, s)
        [] op = "OpTypeRuntimeArray" -> addCapability(reqs, "Shader")
        [] op \in {"OpTypeOpaque", "OpTypeEvent"} ->
             addCapability(reqs, "Kernel")
        [] op \in {"OpTypePipe", "OpTypeReserveId"} ->
             addCapability(reqs, "Pipes")
        [] op \in {"OpTypeDeviceEvent", "OpTypeQueue"} ->
             addCapability(reqs, "DeviceEnqueue")
        [] op \in {"OpDecorate", "OpDecorateId", "OpDecorateString"} ->
             addOpDecorateReqs(MI, 1, reqs, s)
        [] op \in {"OpMemberDecorate", "OpMemberDecorateString"} ->
             addOpDecorateReqs(MI, 2, reqs, s)
        [] op = "OpInBoundsPtrAccessChain" -> addCapability(reqs, "Addresses")
        [] op = "OpConstantSampler" -> addCapability(reqs, "LiteralSampler")
        [] op = "OpTypeSampler" -> addCapability(reqs, "ImageBasic")
        [] op = "OpTypeForwardPointer" ->
             IF isKernel(s) THEN addCapability(reqs, "Addresses")
             ELSE addCapability(reqs, "PhysicalStorageBufferAddresses")
        [] op \in {"OpSelect", "OpPhi", "OpFunctionCall", "OpPtrAccessChain",
                   "OpLoad", "OpConstantNull"} ->
             addVariablePtrInstrReqs(MI, reqs, s)
        [] OTHER -> reqs

\* Variant: OpStore is handled like OpLoad.
addInstrRequirementsStoreAsLoad(MI, reqs, s) ==
  IF getOpcode(MI) = "OpTypeImage" THEN addOpTypeImageReqs(MI, reqs, s)
  ELSE IF getOpcode(MI) = "OpStore"
       THEN {addVariablePtrInstrReqs(MI, reqs, s)}
       ELSE {addInstrRequirementsSwitch(MI, reqs, s)}

\* addInstrRequirements: the handler states one call may leave behind.
addInstrRequirements(MI, reqs, s) ==
  IF getOpcode(MI) = "OpTypeImage" THEN addOpTypeImageReqs(MI, reqs, s)
  ELSE {addInstrRequirementsSwitch(MI, reqs, s)}

(***************************************************************************)
(* SPIRVAddRequirementsPass.cpp: runOnMachineFunction, the driver.         *)
(***************************************************************************)
NumInstrs(F) == Len(Flatten(F))

\* The k-th instruction in program order: blocks in order, instructions in
\* order within a block.
InstrAt(F, k) == Flatten(F)[k]

\* Variant: the blocks are visited last to first.
ScanOrderBlocksReversed(F) == Flatten([i \in 1..Len(F) |-> F[Len(F) + 1 - i]])

\* The order in which the double loop of the scan feeds instructions.
ScanOrder(F) == Flatten(F)

\* The immediate standing for an extension in an OpExtension record.
ExtVal(e) == CHOOSE i \in 1..Len(ExtensionOrder) : ExtensionOrder[i] = e

OpCapability(cap) == Instr("OpCapability", <<CapVal[cap]>>)

OpExtension(ext) == Instr("OpExtension", <<ExtVal(ext)>>)

\* The records the two emission loops build, in the order they build them.
Declarations(h) ==
  [i \in 1..Len(getMinimalCapabilities(h)) |->
     OpCapability(getMinimalCapabilities(h)[i])]
  \o [i \in 1..Len(getExtensions(h)) |-> OpExtension(getExtensions(h)[i])]

\* MachineIRBuilder::buildInstr with the insertion point set at the first
\* instruction the first block had: the n records built so far sit in front
\* of that instruction, the new one goes right after them.
\* Variant: every record is put at the very start of the first block.
buildInstrAtFront(F, n, rec) == [F EXCEPT ![1] = <<rec>> \o @]

buildInstr(F, n, rec) ==
  [F EXCEPT ![1] = SubSeq(@, 1, n) \o <<rec>> \o SubSeq(@, n + 1, Len(@))]

\* Line 62: SPIRVRequirementHandler reqHandler;
Begin(u) ==
  /\ pc[u] = "start"
  /\ \E h \in FreshHandlers : reqHandler' = [reqHandler EXCEPT ![u] = h]
  /\ pc' = [pc EXCEPT ![u] = "scan"]
  /\ UNCHANGED <<ST, MF, MF0, scanned, emitted, enableCall>>

\* Variant: the handler is constructed anew for every instruction.
ScanStepFreshHandler(u) ==
  /\ pc[u] = "scan"
  /\ scanned[u] < NumInstrs(MF[u])
  /\ \E h \in addInstrRequirements(ScanOrder(MF[u])[scanned[u] + 1],
                                   NewRequirementHandler, ST) :
       /\ reqHandler' = [reqHandler EXCEPT ![u] = h]
       /\ pc' = [pc EXCEPT ![u] = IF h.err = NoError THEN "scan"
                                  ELSE "failed"]
  /\ scanned' = [scanned EXCEPT ![u] = @ + 1]
  /\ UNCHANGED <<ST, MF, MF0, emitted, enableCall>>

\* Variant: one handler is shared by all the runs of the pass.
ScanStepSharedHandler(u) ==
  /\ pc[u] = "scan"
  /\ scanned[u] < NumInstrs(MF[u])
  /\ \E h \in addInstrRequirements(ScanOrder(MF[u])[scanned[u] + 1],
                                   reqHandler[u], ST) :
       /\ reqHandler' = [w \in DOMAIN reqHandler |-> h]
       /\ pc' = [pc EXCEPT ![u] = IF h.err = NoError THEN "scan"
                                  ELSE "failed"]
  /\ scanned' = [scanned EXCEPT ![u] = @ + 1]
  /\ UNCHANGED <<ST, MF, MF0, emitted, enableCall>>

\* Variant: a fatal error does not end the pass.
ScanStepKeepGoing(u) ==
  /\ pc[u] = "scan"
  /\ scanned[u] < NumInstrs(MF[u])
  /\ \E h \in addInstrRequirements(ScanOrder(MF[u])[scanned[u] + 1],
                                   [reqHandler[u] EXCEPT !.err = "none"],
                                   ST) :
       reqHandler' = [reqHandler EXCEPT ![u] = h]
  /\ pc' = pc
  /\ scanned' = [scanned EXCEPT ![u] = @ + 1]
  /\ UNCHANGED <<ST, MF, MF0, emitted, enableCall>>

\* Lines 63-67: one iteration of the scan, i.e. one addInstrRequirements
\* call.  A fatal error ends the pass.
ScanStep(u) ==
  /\ pc[u] = "scan"
  /\ scanned[u] < NumInstrs(MF[u])
  /\ \E h \in addInstrRequirements(ScanOrder(MF[u])[scanned[u] + 1],
                                   reqHandler[u], ST) :
       /\ reqHandler' = [reqHandler EXCEPT ![u] = h]
       /\ pc' = [pc EXCEPT ![u] = IF h.err = NoError THEN "scan"
                                  ELSE "failed"]
  /\ scanned' = [scanned EXCEPT ![u] = @ + 1]
  /\ UNCHANGED <<ST, MF, MF0, emitted, enableCall>>

\* Lines 71-75: the scan is over, the builder is placed at the first
\* instruction of the first block.
ScanEnd(u) ==
  /\ pc[u] = "scan"
  /\ scanned[u] = NumInstrs(MF[u])
  /\ pc' = [pc EXCEPT ![u] = "emit"]
  /\ UNCHANGED <<ST, MF, MF0, reqHandler, scanned, emitted, enableCall>>

\* Lines 77-82: one iteration of the emission loops.
EmitRecord(u) ==
  /\ pc[u] = "emit"
  /\ emitted[u] < Len(Declarations(reqHandler[u]))
  /\ MF' = [MF EXCEPT ![u] =
              buildInstr(@, emitted[u],
                         Declarations(reqHandler[u])[emitted[u] + 1])]
  /\ emitted' = [emitted EXCEPT ![u] = @ + 1]
  /\ UNCHANGED <<ST, MF0, reqHandler, pc, scanned, enableCall>>

\* Line 85: return.
Finish(u) ==
  /\ pc[u] = "emit"
  /\ emitted[u] = Len(Declarations(reqHandler[u]))
  /\ pc' = [pc EXCEPT ![u] = "done"]
  /\ UNCHANGED <<ST, MF, MF0, reqHandler, scanned, emitted, enableCall>>

Units == DOMAIN pc

Next ==
  \E u \in Units :
    Begin(u) \/ ScanStep(u) \/ ScanEnd(u) \/ EmitRecord(u) \/ Finish(u)

(***************************************************************************)
(* Inputs.                                                                 *)
(***************************************************************************)
MaxInstrs == 2

Triple(env, logical, features) ==
  [env |-> env, logical |-> logical, features |-> features]

Environments == {"Vulkan", "OpenCL", "Unknown"}

\* Feature strings: no extra feature, or the geometry and tessellation
\* capabilities switched on.
FeatureSets == {{}, {"Geometry", "Tessellation"}}

Triples ==
  {Triple(e, l, f) : e \in Environments, l \in BOOLEAN, f \in FeatureSets}

SeqsUpTo(A, n) == UNION {[1..k -> A] : k \in 1..n}

\* A function body over an instruction alphabet: one block (k = 0), or two
\* non-empty blocks, the first holding k instructions.
Split(s, k) ==
  IF k = 0 THEN <<s>> ELSE <<SubSeq(s, 1, k), SubSeq(s, k + 1, Len(s))>>

Functions(A) ==
  UNION {{Split(s, k) : k \in 0..(Len(s) - 1)} :
           s \in SeqsUpTo(A, MaxInstrs)}

NoCall == [cap |-> "", visit |-> ""]

\* The state when the pass is about to run: the subtarget is constructed
\* and every unit holds the same function.
InitWith(STs, Fs, US) ==
  /\ ST \in STs
  /\ MF0 \in [US -> Fs]
  /\ \A u1, u2 \in US : MF0[u1] = MF0[u2]
  /\ MF = MF0
  /\ reqHandler = [u \in US |-> NewRequirementHandler]
  /\ pc = [u \in US |-> "start"]
  /\ scanned = [u \in US |-> 0]
  /\ emitted = [u \in US |-> 0]
  /\ enableCall = NoCall

\* Instructions.  Operand 0 of a type or value instruction is its result
\* register; image types follow the OpTypeImage operand layout.
OpTypeInt64 == Instr("OpTypeInt", <<2, 64>>)
OpTypeMatrix4 == Instr("OpTypeMatrix", <<2, 2, 4>>)
OpTypeRuntimeArrayOfInt == Instr("OpTypeRuntimeArray", <<2, 2>>)
OpTypeOpaqueT == Instr("OpTypeOpaque", <<2>>)
OpLoadPointer == Instr("OpLoad", <<2, 1, 2>>)
OpLoadInt == Instr("OpLoad", <<2, 2, 2>>)
OpDecorateSpecId == Instr("OpDecorate", <<2, 1, 7>>)
OpDecoratePosition == Instr("OpDecorate", <<2, 11, 0>>)
OpDecorateNoSignedWrap == Instr("OpDecorate", <<2, 4469>>)
OpMemberDecorateNoUnsignedWrap == Instr("OpMemberDecorate", <<2, 0, 4470>>)
OpMemoryModelPhysical32Simple == Instr("OpMemoryModel", <<1, 0>>)
OpExecutionModeTriangles == Instr("OpExecutionMode", <<2, 22>>)
OpExecutionModeSpacingEqual == Instr("OpExecutionMode", <<2, 1>>)
OpTypeImageCubeArray == Instr("OpTypeImage", <<2, 2, 3, 0, 1, 0, 1, 0>>)
OpTypeImageShort == Instr("OpTypeImage", <<2, 2, 3, 0, 1, 0, 1>>)
OpIAdd == Instr("OpIAdd", <<2, 2, 2, 2>>)

\* The alphabet of the main specification.
MainInstrs ==
  {OpTypeInt64, OpTypeMatrix4, OpTypeRuntimeArrayOfInt, OpTypeOpaqueT,
   OpLoadPointer, OpDecorateSpecId, OpDecoratePosition,
   OpMemoryModelPhysical32Simple, OpExecutionModeTriangles,
   OpExecutionModeSpacingEqual, OpTypeImageCubeArray, OpIAdd}

\* The subtargets the constructor builds.
Subtargets ==
  {NewSubtarget(TT, computeTargetSPIRVVersion(TT)) : TT \in Triples}

Init == InitWith(Subtargets, Functions(MainInstrs), {1})

Spec == Init /\ [][Next]_vars

\* Version gating and emission of extensions: the subtarget is built with
\* SPIR-V 1.3, 1.4 or 1.5, and the alphabet holds the decorations gated by
\* an extension and an image type short of one operand.
TargetVersions == {v(1, 3, 0), v(1, 4, 0), v(1, 5, 0)}

SubtargetsVer ==
  {NewSubtarget(TT, ver) : TT \in Triples, ver \in TargetVersions}

VerInstrs ==
  {OpDecorateNoSignedWrap, OpMemberDecorateNoUnsignedWrap, OpDecorateSpecId,
   OpTypeInt64, OpTypeOpaqueT, OpMemoryModelPhysical32Simple,
   OpTypeImageShort}

InitVer == InitWith(SubtargetsVer, Functions(VerInstrs), {1})

SpecVer == InitVer /\ [][Next]_vars

\* Two resolutions of the same function against the same subtarget, each
\* a run of the pass of its own.  The alphabet holds image types with all
\* their operands and a two-dimensional one short of its image format.
OpTypeImage2DShort == Instr("OpTypeImage", <<2, 2, 1, 0, 0, 0, 1>>)

DetInstrs ==
  {OpTypeInt64, OpTypeRuntimeArrayOfInt, OpLoadPointer, OpDecorateSpecId,
   OpExecutionModeTriangles, OpTypeImageCubeArray, OpTypeImage2DShort}

InitDet == InitWith(Subtargets, Functions(DetInstrs), {1, 2})

SpecDet == InitDet /\ [][Next]_vars

\* The closure routine of the subtarget on its own: one
\* enableFeatureCapability call on a subtarget with every flag cleared and
\* availableCaps empty.
EnableFeatureCapabilityCall ==
  /\ enableCall = NoCall
  /\ \E Cap \in Capability, visit \in {"fwd", "rev"} :
       /\ ST' = enableFeatureCapability(ST, Cap, visit)
       /\ enableCall' = [cap |-> Cap, visit |-> visit]
  /\ UNCHANGED <<MF, MF0, reqHandler, pc, scanned, emitted>>

InitClosure ==
  /\ ST = Unbuilt
  /\ MF0 = <<>>
  /\ MF = <<>>
  /\ reqHandler = <<>>
  /\ pc = <<>>
  /\ scanned = <<>>
  /\ emitted = <<>>
  /\ enableCall = NoCall

NextClosure == EnableFeatureCapabilityCall

SpecClosure == InitClosure /\ [][NextClosure]_vars

\* One call of the closure routine with its calls recorded, on the
\* capability table and on a table with one edge more, from Matrix back to
\* Shader, which closes a cycle.
CyclicGraph == [CapDeps EXCEPT !["Matrix"] = <<"Shader">>]

Graphs == [table |-> CapDeps, cyclic |-> CyclicGraph]

EnableRecorded(g) ==
  /\ enableCall = NoCall
  /\ \E Cap \in Capability, visit \in {"fwd", "rev"} :
       LET t == enableFeatureCapabilityOn(
                  Graphs[g], [s |-> ST, inserted |-> <<>>, expanded |-> <<>>],
                  Cap, visit)
       IN  /\ ST' = t.s
           /\ enableCall' = [cap |-> Cap, visit |-> visit, graph |-> g,
                             inserted |-> t.inserted,
                             expanded |-> t.expanded]
  /\ UNCHANGED <<MF, MF0, reqHandler, pc, scanned, emitted>>

NextVisit == EnableRecorded("table") \/ EnableRecorded("cyclic")

SpecVisit == InitClosure /\ [][NextVisit]_vars

\* One addRequirements call on an accumulator that holds nothing, Shader
\* and its prerequisite, or Kernel, with a requirement drawn from: no, one
\* or two alternatives; no extension, one the non-Vulkan subtargets have, one
\* no subtarget has; a window that is unbounded, starts at 1.4 or ends at
\* 1.3.
CallAlternatives ==
  {<< <<>> >>, << <<"Shader">> >>, << <<"Kernel">> >>,
   << <<"Shader">>, <<"Kernel">> >>}

CallExtensions ==
  {<<>>, <<"SPV_KHR_no_integer_wrap_decoration">>,
   <<"SPV_KHR_variable_pointers">>}

CallWindows == {<<0, 0>>, <<66560, 0>>, <<0, 66304>>}

CallRequirements ==
  {Requirement(a, e, w[1], w[2]) :
     a \in CallAlternatives, e \in CallExtensions, w \in CallWindows}

CallHandlers ==
  {NewRequirementHandler,
   [caps |-> <<"Shader", "Matrix">>, exts |-> <<>>, err |-> "none"],
   [caps |-> <<"Kernel">>, exts |-> <<>>, err |-> "none"]}

InitCall ==
  /\ ST \in SubtargetsVer
  /\ reqHandler \in {<<h>> : h \in CallHandlers}
  /\ MF0 = <<>>
  /\ MF = <<>>
  /\ pc = <<>>
  /\ scanned = <<>>
  /\ emitted = <<>>
  /\ enableCall = NoCall

AddRequirementsCall ==
  /\ enableCall = NoCall
  /\ \E req \in CallRequirements :
       /\ reqHandler' = <<addRequirements(reqHandler[1], req, ST)>>
       /\ enableCall' = [req |-> req, before |-> reqHandler[1]]
  /\ UNCHANGED <<ST, MF, MF0, pc, scanned, emitted>>

NextCall == AddRequirementsCall

SpecCall == InitCall /\ [][NextCall]_vars

\* Construction of the subtarget on its own, for triples whose feature
\* string flags capabilities of every position in the table: none, some
\* whose prerequisites come earlier in the table, some whose prerequisite
\* comes later (ImageCubeArray, ImageRect), and one with two prerequisites.
ProfileFeatureSets ==
  {{}, {"Geometry", "Tessellation"}, {"Shader"}, {"ImageCubeArray"},
   {"ImageRect"}, {"ImageCubeArray", "ImageRect"}, {"SampledCubeArray"},
   {"VariablePointers"}, {"InputAttachmentArrayNonUniformIndexingEXT"},
   {"Kernel", "Matrix"}}

ProfileTriples ==
  {Triple(e, l, f) :
     e \in Environments, l \in BOOLEAN, f \in ProfileFeatureSets}

\* SPIRVSubtarget::SPIRVSubtarget
ConstructSubtarget ==
  /\ ~ST.built
  /\ ST' = NewSubtarget(ST.triple, computeTargetSPIRVVersion(ST.triple))
  /\ UNCHANGED <<MF, MF0, reqHandler, pc, scanned, emitted, enableCall>>

InitProfile ==
  /\ ST \in {[Unbuilt EXCEPT !.triple = TT] : TT \in ProfileTriples}
  /\ MF0 = <<>>
  /\ MF = <<>>
  /\ reqHandler = <<>>
  /\ pc = <<>>
  /\ scanned = <<>>
  /\ emitted = <<>>
  /\ enableCall = NoCall

NextProfile == ConstructSubtarget

SpecProfile == InitProfile /\ [][NextProfile]_vars

\* Construction of the subtarget for feature strings that flag any one
\* capability of the table, or one of the sets above, followed by one more
\* call of updateCapabilitiesFromFeatures.  Two of the sets flag a
\* capability together with its direct prerequisite.
FlagFeatureSets ==
  {{c} : c \in Capability} \cup ProfileFeatureSets
    \cup {{"ImageCubeArray", "SampledCubeArray"}, {"Geometry", "Shader"}}

FlagTriples ==
  {Triple(e, l, f) : e \in Environments, l \in BOOLEAN, f \in FlagFeatureSets}

InitFlags ==
  /\ ST \in {[Unbuilt EXCEPT !.triple = TT] : TT \in FlagTriples}
  /\ MF0 = <<>>
  /\ MF = <<>>
  /\ reqHandler = <<>>
  /\ pc = <<>>
  /\ scanned = <<>>
  /\ emitted = <<>>
  /\ enableCall = NoCall

UpdateAgain ==
  /\ ST.built
  /\ enableCall = NoCall
  /\ ST' = updateCapabilitiesFromFeatures(ST)
  /\ enableCall' = [cap |-> "", visit |-> "again"]
  /\ UNCHANGED <<MF, MF0, reqHandler, pc, scanned, emitted>>

NextFlags == ConstructSubtarget \/ UpdateAgain

SpecFlags == InitFlags /\ [][NextFlags]_vars

\* Pointer types and the instructions of the def/use rule.  Register 1 is
\* defined by an OpTypePointer, register 2 by an OpTypeInt; operand 1 of a
\* value instruction is its result type.
OpTypePointerFunction == Instr("OpTypePointer", <<1, 7, 2>>)
OpTypePointerUniform == Instr("OpTypePointer", <<1, 2, 2>>)
OpSelectPointer == Instr("OpSelect", <<3, 1, 3, 3, 3>>)
OpSelectInt == Instr("OpSelect", <<3, 2, 3, 3, 3>>)
OpPhiPointer == Instr("OpPhi", <<3, 1, 3, 3>>)
OpFunctionCallPointer == Instr("OpFunctionCall", <<3, 1, 3>>)
OpPtrAccessChainPointer == Instr("OpPtrAccessChain", <<3, 1, 3, 3>>)
OpConstantNullPointer == Instr("OpConstantNull", <<3, 1>>)
OpConstantNullInt == Instr("OpConstantNull", <<3, 2>>)

PtrInstrs ==
  {OpTypePointerFunction, OpTypePointerUniform, OpLoadPointer, OpLoadInt,
   OpSelectPointer, OpSelectInt, OpPhiPointer, OpFunctionCallPointer,
   OpPtrAccessChainPointer, OpConstantNullPointer, OpConstantNullInt}

InitPtr == InitWith(Subtargets, Functions(PtrInstrs), {1})

SpecPtr == InitPtr /\ [][Next]_vars

\* Image types: well formed with 8 and with 9 operands, and short of the
\* image format operand or of more.
OpTypeImage1DReadWrite == Instr("OpTypeImage", <<2, 2, 0, 0, 0, 0, 2, 0, 2>>)
OpTypeImageNoDim == Instr("OpTypeImage", <<2, 2>>)

ImageInstrs ==
  {OpTypeImageShort, OpTypeImageNoDim, OpTypeImageCubeArray,
   OpTypeImage1DReadWrite, OpTypeInt64}

InitImage == InitWith(Subtargets, Functions(ImageInstrs), {1})

SpecImage == InitImage /\ [][Next]_vars

\* Integer, float and vector types of every width and component count the
\* rules distinguish, and of some they do not.
OpTypeInt8 == Instr("OpTypeInt", <<2, 8>>)
OpTypeInt16 == Instr("OpTypeInt", <<2, 16>>)
OpTypeInt32 == Instr("OpTypeInt", <<2, 32>>)
OpTypeFloat16 == Instr("OpTypeFloat", <<2, 16>>)
OpTypeFloat32 == Instr("OpTypeFloat", <<2, 32>>)
OpTypeFloat64 == Instr("OpTypeFloat", <<2, 64>>)
OpTypeFloat8 == Instr("OpTypeFloat", <<2, 8>>)
OpTypeVector2 == Instr("OpTypeVector", <<2, 2, 2>>)
OpTypeVector3 == Instr("OpTypeVector", <<2, 2, 3>>)
OpTypeVector4 == Instr("OpTypeVector", <<2, 2, 4>>)
OpTypeVector8 == Instr("OpTypeVector", <<2, 2, 8>>)
OpTypeVector16 == Instr("OpTypeVector", <<2, 2, 16>>)
OpTypeVector64 == Instr("OpTypeVector", <<2, 2, 64>>)

WidthInstrs ==
  {OpTypeInt8, OpTypeInt16, OpTypeInt32, OpTypeInt64,
   OpTypeFloat8, OpTypeFloat16, OpTypeFloat32, OpTypeFloat64,
   OpTypeVector2, OpTypeVector3, OpTypeVector4, OpTypeVector8,
   OpTypeVector16, OpTypeVector64}

InitWidth == InitWith(Subtargets, Functions(WidthInstrs), {1})

SpecWidth == InitWidth /\ [][Next]_vars

\* Functions made of one well-formed image type: every dimensionality, the
\* arrayed, multisampled and sampled flags, three image formats, and the
\* access qualifier absent, ReadOnly or ReadWrite; against the subtargets of
\* every profile triple.
ImageTableInstrs ==
  {Instr("OpTypeImage", <<2, 2, d, 0, a, m, sm, f>> \o q) :
     d \in 0..6, a \in {0, 1}, m \in {0, 1}, sm \in {1, 2},
     f \in {0, 1, 6}, q \in {<<>>, <<0>>, <<2>>}}

ProfileSubtargets ==
  {NewSubtarget(TT, computeTargetSPIRVVersion(TT)) : TT \in ProfileTriples}

InitTable ==
  InitWith(ProfileSubtargets, {<< <<I>> >> : I \in ImageTableInstrs}, {1})

SpecTable == InitTable /\ [][Next]_vars

\* The five decoration-carrying opcodes, with the kind BuiltIn and with
\* other kinds, some of them followed by a literal that is also the number
\* of a built-in, and a member index that is also the number of a kind.
OpDecorateSpecId0 == Instr("OpDecorate", <<2, 1, 0>>)
OpDecorateIdBuiltInWorkDim == Instr("OpDecorateId", <<2, 11, 30>>)
OpDecorateStringNoSignedWrap == Instr("OpDecorateString", <<2, 4469>>)
OpMemberDecorateBuiltInPosition == Instr("OpMemberDecorate", <<2, 0, 11, 0>>)
OpMemberDecorate11Relaxed == Instr("OpMemberDecorate", <<2, 11, 0, 30>>)
OpMemberDecorateStringBuiltInWorkDim ==
  Instr("OpMemberDecorateString", <<2, 1, 11, 30>>)

DecoInstrs ==
  {OpDecoratePosition, OpDecorateSpecId0, OpDecorateIdBuiltInWorkDim,
   OpDecorateStringNoSignedWrap, OpMemberDecorateBuiltInPosition,
   OpMemberDecorate11Relaxed, OpMemberDecorateStringBuiltInWorkDim,
   OpMemberDecorateNoUnsignedWrap}

InitDeco == InitWith(SubtargetsVer, Functions(DecoInstrs), {1})

SpecDeco == InitDeco /\ [][Next]_vars

\* Instructions that issue direct capability requests or requirements of
\* one alternative only.
PermInstrs ==
  {OpTypeInt64, OpTypeMatrix4, OpTypeRuntimeArrayOfInt, OpTypeOpaqueT,
   OpDecoratePosition, OpDecorateNoSignedWrap}

InitPerm == InitWith(SubtargetsVer, Functions(PermInstrs), {1})

SpecPerm == InitPerm /\ [][Next]_vars

\* Instructions of opcodes the mapper has no case for, next to two it has
\* a case for.  Operand 1 of the store is register 1, of pointer type.
OpStorePointer == Instr("OpStore", <<1, 1>>)
OpBranch == Instr("OpBranch", <<2>>)
OpReturn == Instr("OpReturn", <<>>)

OtherInstrs ==
  {OpIAdd, OpStorePointer, OpBranch, OpReturn, OpTypeInt64, OpDecorateSpecId}

InitOther == InitWith(Subtargets, Functions(OtherInstrs), {1})

SpecOther == InitOther /\ [][Next]_vars

\* Two functions resolved at the same time, each by its own run of the
\* pass, against one subtarget.  The steps of the two runs interleave in
\* every order.  Each function is one block.
ConcInstrs == {OpTypeInt64, OpLoadPointer, OpDecorateSpecId}

ConcSubtargets ==
  {NewSubtarget(Triple(e, l, {}), computeTargetSPIRVVersion(Triple(e, l, {}))) :
     e \in {"Vulkan", "OpenCL"}, l \in BOOLEAN}

InitConc ==
  /\ ST \in ConcSubtargets
  /\ MF0 \in [{1, 2} -> {<<p>> : p \in SeqsUpTo(ConcInstrs, MaxInstrs)}]
  /\ MF = MF0
  /\ reqHandler = [u \in {1, 2} |-> NewRequirementHandler]
  /\ pc = [u \in {1, 2} |-> "start"]
  /\ scanned = [u \in {1, 2} |-> 0]
  /\ emitted = [u \in {1, 2} |-> 0]
  /\ enableCall = NoCall

SpecConc == InitConc /\ [][Next]_vars

(***************************************************************************)
(* Properties.                                                             *)
(***************************************************************************)
Caps(u) == reqHandler[u].caps

Exts(u) == reqHandler[u].exts

Err(u) == reqHandler[u].err

\* The instructions of unit u in program order, as handed to the pass.
Program(u) == Flatten(MF0[u])

\* This step is unit u feeding its next instruction to the mapper.
Feeds(u) == pc[u] = "scan" /\ scanned'[u] = scanned[u] + 1

Fed(u) == Program(u)[scanned[u] + 1]

\* C1: in every state of a resolution that has not failed, every capability
\* of the accumulator is in the subtarget's availableCaps and every
\* extension in its availableExtensions.
C1_AvailabilityContainment ==
  \A u \in Units :
    Err(u) = NoError =>
      /\ Range(Caps(u)) \subseteq ST.availableCaps
      /\ Range(Exts(u)) \subseteq ST.availableExtensions

\* C2: the accumulator's capability set is closed under the prerequisites
\* of the capability table: with a capability it holds every transitive
\* prerequisite of it.
C2_ClosureCompleteness ==
  \A u \in Units :
    \A c \in Range(Caps(u)) : TransitivePrereqs[c] \subseteq Range(Caps(u))

C2_Witness ==
  \E u \in Units :
    /\ Contains(Caps(u), "VariablePointers")
    /\ Contains(Caps(u), "Matrix")
    /\ Len(Caps(u)) >= 4

\* The Caps column behind the one requirement an OpExecutionMode or a
\* non-BuiltIn OpDecorate issues.
IssuesOneTableRequirement(MI) ==
  \/ MI.opcode = "OpExecutionMode"
  \/ MI.opcode = "OpDecorate" /\ MI.ops[2] # 11

TableEntryOf(MI) ==
  IF MI.opcode = "OpExecutionMode" THEN Entry(DEF_ExecutionMode, MI.ops[2])
  ELSE Entry(DEF_Decoration, MI.ops[2])

\* C3: a requirement with alternatives leaves the capability set unchanged
\* when one alternative is already enabled; otherwise it enables exactly the
\* first alternative, in declaration order, that the subtarget makes
\* available, together with its prerequisites and nothing else; with no
\* available alternative it fails and adds nothing.
C3_AlternativeSatisfaction ==
  [][\A u \in Units :
       (Feeds(u) /\ IssuesOneTableRequirement(Fed(u))) =>
         LET alts == TableEntryOf(Fed(u)).caps
             before == Range(Caps(u))
             after == Range(reqHandler'[u].caps)
             avail == {k \in 1..Len(alts) : alts[k] \in ST.availableCaps}
         IN  IF alts = <<>> \/ \E k \in 1..Len(alts) : alts[k] \in before
             THEN reqHandler'[u].caps = Caps(u)
             ELSE IF avail = {}
             THEN /\ reqHandler'[u].caps = Caps(u)
                  /\ reqHandler'[u].err = "UnmetCapabilityRequirement"
             ELSE LET first == CHOOSE k \in avail : \A j \in avail : k <= j
                  IN  /\ IsPrefix(Caps(u), reqHandler'[u].caps)
                      /\ after = before \cup {alts[first]}
                                   \cup TransitivePrereqs[alts[first]]
                      /\ \A k \in 1..Len(alts) :
                           alts[k] \in after =>
                             alts[k] \in {alts[first]}
                               \cup TransitivePrereqs[alts[first]]
    ]_vars

\* Kernel was enabled by an earlier instruction; SpecId (Shader or Kernel)
\* then leaves Shader out although Shader comes first and is available.
C3_Witness ==
  \E u \in Units :
    /\ Program(u) = <<OpTypeOpaqueT, OpDecorateSpecId>>
    /\ scanned[u] = 2
    /\ Err(u) = NoError
    /\ "Shader" \in ST.availableCaps
    /\ Caps(u) = <<"Kernel">>

\* The decoration-kind operand of a decoration-carrying instruction.
IsDecoration(MI) == MI.opcode \in {"OpDecorate", "OpMemberDecorate"}

DecorationOf(MI) == IF MI.opcode = "OpDecorate" THEN MI.ops[2] ELSE MI.ops[3]

\* C4: a requirement with extensions E and window [minVer, maxVer] (0 is
\* unbounded) adds no extension when the target version is inside the
\* window; outside the window it adds every extension of E when the
\* subtarget makes them available and fails with UnmetExtensionRequirement
\* when it does not.  With the window [1.4, 0] of NoSignedWrap the extension
\* is left out from 1.4 on and put in below 1.4.
C4_VersionGating ==
  [][\A u \in Units :
       (/\ Feeds(u)
        /\ IsDecoration(Fed(u))
        /\ DecorationOf(Fed(u)) # 11
        /\ reqHandler'[u].err # "UnmetCapabilityRequirement") =>
         LET e == Entry(DEF_Decoration, DecorationOf(Fed(u)))
             E == Range(e.exts)
             ver == ST.targetSPIRVVersion
             inside == /\ (e.minVer = 0 \/ ver >= e.minVer)
                       /\ (e.maxVer = 0 \/ ver <= e.maxVer)
         IN  /\ inside => reqHandler'[u].exts = Exts(u)
             /\ (~inside /\ E \subseteq ST.availableExtensions) =>
                  /\ reqHandler'[u].err = NoError
                  /\ IsPrefix(Exts(u), reqHandler'[u].exts)
                  /\ Range(reqHandler'[u].exts) = Range(Exts(u)) \cup E
             /\ (~inside /\ ~(E \subseteq ST.availableExtensions)) =>
                  /\ reqHandler'[u].err = "UnmetExtensionRequirement"
                  /\ Range(reqHandler'[u].exts) \subseteq
                       Range(Exts(u)) \cup (E \cap ST.availableExtensions)
             /\ (e.minVer = 66560 /\ e.maxVer = 0) =>
                  IF ver >= 66560 THEN reqHandler'[u].exts = Exts(u)
                  ELSE E \subseteq ST.availableExtensions =>
                         E \subseteq Range(reqHandler'[u].exts)
    ]_vars

C4_Witness ==
  \E u \in Units :
    /\ Program(u)[1] = OpDecorateNoSignedWrap
    /\ scanned[u] = 1
    /\ ST.targetSPIRVVersion < 66560
    /\ Exts(u) = <<"SPV_KHR_no_integer_wrap_decoration">>
    /\ Err(u) = NoError

\* C5: an instruction that fails with UnmetCapabilityRequirement leaves the
\* capability set and the extension set exactly as they were before the
\* instruction, earlier requirements of the same instruction included.
C5_UnmetLeavesStateUntouched ==
  [][\A u \in Units :
       (Feeds(u) /\ reqHandler'[u].err = "UnmetCapabilityRequirement") =>
         /\ reqHandler'[u].caps = Caps(u)
         /\ reqHandler'[u].exts = Exts(u)
    ]_vars

\* C6: once an instruction has raised an error the pass has stopped and the
\* function is as it was handed in; a declaration record is in the function
\* only when the whole scan has completed without error.
C6_AllOrNothing ==
  \A u \in Units :
    /\ Err(u) # NoError => (pc[u] = "failed" /\ MF[u] = MF0[u]
                             /\ emitted[u] = 0)
    /\ pc[u] = "failed" => Err(u) # NoError
    /\ (MF[u] # MF0[u] \/ emitted[u] > 0) =>
         /\ Err(u) = NoError
         /\ scanned[u] = NumInstrs(MF0[u])
         /\ pc[u] \in {"emit", "done"}

\* A failure after an instruction that did add a capability.
C6_Witness ==
  \E u \in Units :
    /\ pc[u] = "failed"
    /\ scanned[u] >= 2
    /\ Caps(u) # <<>>
    /\ MF[u] = MF0[u]

\* C7: two resolutions of the same function against the same subtarget that
\* are at the same point hold the same capability and extension sequences
\* and have emitted the same records; at the end they agree.
C7_Determinism ==
  \A u1, u2 \in Units :
    (/\ MF0[u1] = MF0[u2]
     /\ pc[u1] = pc[u2]
     /\ scanned[u1] = scanned[u2]
     /\ emitted[u1] = emitted[u2]
     /\ pc[u1] # "start") =>
      /\ reqHandler[u1] = reqHandler[u2]
      /\ MF[u1] = MF[u2]

\* Well-formed instructions of the two alphabets.
WellFormedInstrs == (MainInstrs \cup VerInstrs) \ {OpTypeImageShort}

\* C8: processing an instruction a second time right after the first
\* changes nothing: capability sequence, extension sequence and order stay.
C8_Idempotence ==
  \A u \in Units :
    Err(u) = NoError =>
      \A I \in WellFormedInstrs :
        \A h1 \in addInstrRequirements(I, reqHandler[u], ST) :
          h1.err = NoError => addInstrRequirements(I, h1, ST) = {h1}

C8_Witness ==
  \E u \in Units :
    /\ Program(u) = <<OpDecorateNoSignedWrap, OpDecorateNoSignedWrap>>
    /\ scanned[u] = 2
    /\ Err(u) = NoError
    /\ Exts(u) = <<"SPV_KHR_no_integer_wrap_decoration">>

\* C9: enabling one capability on an empty set gives the capability and its
\* transitive prerequisites and nothing else, in either visiting order of
\* the direct prerequisites, with the flags in step.
C9_ClosureCorrectness ==
  enableCall # NoCall =>
    /\ ST.availableCaps =
         {enableCall.cap} \cup TransitivePrereqs[enableCall.cap]
    /\ ST.Has = ST.availableCaps

C9_Witness ==
  /\ enableCall = [cap |-> "InputAttachmentArrayNonUniformIndexingEXT",
                   visit |-> "rev"]
  /\ Cardinality(ST.availableCaps) = 5

\* C10: the records in front of the first block are one OpCapability per
\* capability in insertion order, then one OpExtension per extension in
\* insertion order; the instructions the function had follow them unchanged.
C10_EmissionOrder ==
  \A u \in Units :
    LET expected ==
          [i \in 1..Len(Caps(u)) |->
             [opcode |-> "OpCapability", ops |-> <<CapVal[Caps(u)[i]]>>]]
          \o [i \in 1..Len(Exts(u)) |->
                [opcode |-> "OpExtension", ops |-> <<ExtVal(Exts(u)[i])>>]]
    IN  /\ pc[u] \notin {"emit", "done"} => MF[u] = MF0[u]
        /\ pc[u] \in {"emit", "done"} =>
             /\ emitted[u] <= Len(expected)
             /\ MF[u][1] = SubSeq(expected, 1, emitted[u]) \o MF0[u][1]
             /\ Len(MF[u]) = Len(MF0[u])
             /\ \A b \in 2..Len(MF[u]) : MF[u][b] = MF0[u][b]
        /\ pc[u] = "done" => emitted[u] = Len(expected)

C10_Witness ==
  \E u \in Units :
    /\ pc[u] = "done"
    /\ Len(Caps(u)) >= 2
    /\ Len(Exts(u)) >= 1
    /\ MF[u][1][Len(Caps(u)) + 1].opcode = "OpExtension"

\* The flags initSubtargetDependencies and initAvailableCapabilities set,
\* before updateCapabilitiesFromFeatures runs.
BaseFlags(s) ==
  initAvailableCapabilities(
    s.triple, [s EXCEPT !.Has = initSubtargetDependencies(s.triple)]).Has

\* C11: once the subtarget is built, availableCaps is exactly the base
\* flagged capabilities together with their transitive prerequisites, also
\* when a prerequisite comes later in the table than the capability.
C11_ProfileClosure ==
  ST.built =>
    /\ BaseFlags(ST) \subseteq ST.availableCaps
    /\ IsClosed(ST.availableCaps)
    /\ ST.availableCaps = ClosureOfSet(BaseFlags(ST))
    /\ "ImageCubeArray" \in BaseFlags(ST) =>
         {"SampledCubeArray", "Shader", "Matrix"} \subseteq ST.availableCaps
    /\ "ImageRect" \in BaseFlags(ST) =>
         {"SampledRect", "Shader", "Matrix"} \subseteq ST.availableCaps

C11_Witness ==
  /\ ST.built
  /\ ~ST.usesVulkanEnv
  /\ ST.triple.features = {"ImageCubeArray"}
  /\ "SampledCubeArray" \in ST.availableCaps
  /\ "Matrix" \in ST.availableCaps
  /\ "Geometry" \notin ST.availableCaps

\* C12: a function whose only instruction is a 64-bit integer type
\* resolves, without error, to the capability set {Int64} and no extension,
\* and one OpCapability Int64 record is emitted.
C12_SingleInt64 ==
  \A u \in Units :
    Program(u) = <<OpTypeInt64>> =>
      /\ pc[u] # "failed"
      /\ (scanned[u] = 1) =>
           (Caps(u) = <<"Int64">> /\ Exts(u) = <<>> /\ Err(u) = NoError)
      /\ pc[u] = "done" =>
           MF[u] = << <<[opcode |-> "OpCapability", ops |-> <<11>>],
                        OpTypeInt64>> >>

C12_Witness ==
  \E u \in Units :
    /\ Program(u) = <<OpTypeInt64>>
    /\ pc[u] = "done"
    /\ Caps(u) = <<"Int64">>
    /\ emitted[u] = 1

\* C13: a 64-bit integer type followed by a decoration by the built-in
\* Position, against a subtarget with Shader available, resolves to Int64,
\* Shader and the prerequisites of Shader (Matrix), Int64 first.
C13_BuiltInDecoration ==
  \A u \in Units :
    (/\ Program(u) = <<OpTypeInt64, OpDecoratePosition>>
     /\ "Shader" \in ST.availableCaps) =>
      /\ pc[u] # "failed"
      /\ (scanned[u] = 2) =>
           /\ Range(Caps(u)) =
                {"Int64", "Shader"} \cup TransitivePrereqs["Shader"]
           /\ Caps(u) = <<"Int64", "Shader", "Matrix">>
           /\ Exts(u) = <<>>
           /\ Err(u) = NoError

C13_Witness ==
  \E u \in Units :
    /\ Program(u) = <<OpTypeInt64, OpDecoratePosition>>
    /\ "Shader" \in ST.availableCaps
    /\ pc[u] = "done"
    /\ Caps(u) = <<"Int64", "Shader", "Matrix">>

HasVariablePointers(caps) == Contains(caps, "VariablePointers")

DefUseOpcodes ==
  {"OpSelect", "OpPhi", "OpFunctionCall", "OpPtrAccessChain", "OpLoad",
   "OpConstantNull"}

\* C19: an instruction of the def/use rule adds VariablePointers and its
\* prerequisites exactly when the subtarget uses logical addressing and the
\* register in operand 1 is defined by an OpTypePointer; otherwise it
\* leaves the accumulator as it is.
C19_DefUseRule ==
  [][\A u \in Units :
       (Feeds(u) /\ Fed(u).opcode \in DefUseOpcodes) =>
         IF ST.usesLogicalAddressing
            /\ VRegDef[Fed(u).ops[2]] = "OpTypePointer"
         THEN /\ reqHandler'[u].err = NoError
              /\ IsPrefix(Caps(u), reqHandler'[u].caps)
              /\ Range(reqHandler'[u].caps) =
                   Range(Caps(u)) \cup {"VariablePointers"}
                     \cup TransitivePrereqs["VariablePointers"]
              /\ reqHandler'[u].exts = Exts(u)
         ELSE reqHandler'[u] = reqHandler[u]
    ]_vars

C19_Witness ==
  \E u \in Units :
    /\ Program(u) = <<OpSelectInt, OpSelectPointer>>
    /\ ST.usesLogicalAddressing
    /\ scanned[u] = 2
    /\ Caps(u) = <<"VariablePointers", "VariablePointersStorageBuffer",
                   "Shader", "Matrix">>

\* C15: an image type with fewer than 8 operands raises
\* MalformedInstruction, the pass stops and nothing of the instruction is
\* added; an image type with 8 operands or more never raises it.
C15_MalformedImageType ==
  [][\A u \in Units :
       (Feeds(u) /\ Fed(u).opcode = "OpTypeImage") =>
         IF Len(Fed(u).ops) < 8
         THEN /\ reqHandler'[u].err = "MalformedInstruction"
              /\ reqHandler'[u].caps = Caps(u)
              /\ reqHandler'[u].exts = Exts(u)
              /\ pc'[u] = "failed"
         ELSE reqHandler'[u].err # "MalformedInstruction"
    ]_vars

\* The accumulator a function has after its first n instructions when it
\* is resolved on its own, instruction after instruction.
RECURSIVE ResolvedAlone(_, _, _)
ResolvedAlone(prog, n, s) ==
  IF n = 0 THEN NewRequirementHandler
  ELSE LET h == ResolvedAlone(prog, n - 1, s)
       IN  IF h.err # NoError THEN h
           ELSE CHOOSE h1 \in addInstrRequirements(prog[n], h, s) : TRUE

\* The function after the emission of the first k records of accumulator h.
EmittedAlone(F, h, k) ==
  [F EXCEPT ![1] =
     SubSeq([i \in 1..Len(h.caps) |-> OpCapability(h.caps[i])]
              \o [i \in 1..Len(h.exts) |-> OpExtension(h.exts[i])], 1, k)
       \o @]

\* C16: whatever the interleaving of two resolutions, a step of one leaves
\* the accumulator and the function of the other alone, each is at every
\* point where it would be if resolved alone, and the subtarget is never
\* written.
C16_ConcurrentResolution ==
  [][/\ ST' = ST
     /\ MF0' = MF0
     /\ \A u \in Units :
          /\ pc'[u] # "start" =>
               reqHandler'[u] = ResolvedAlone(Program(u), scanned'[u], ST)
          /\ MF'[u] = EmittedAlone(
                         MF0[u], ResolvedAlone(Program(u), scanned'[u], ST),
                         emitted'[u])
          /\ pc'[u] = "done" =>
               /\ scanned'[u] = Len(Program(u))
               /\ emitted'[u] =
                    Len(reqHandler'[u].caps) + Len(reqHandler'[u].exts)
     /\ \A u, w \in Units :
          (u # w /\ <<pc[u], scanned[u], emitted[u]>>
                      # <<pc'[u], scanned'[u], emitted'[u]>>) =>
            /\ reqHandler'[w] = reqHandler[w]
            /\ MF'[w] = MF[w]
            /\ <<pc'[w], scanned'[w], emitted'[w]>>
                 = <<pc[w], scanned[w], emitted[w]>>
    ]_vars

\* One resolution is in the middle of its scan while the other is in the
\* middle of its emission, on different functions.
C16_Witness ==
  /\ Units = {1, 2}
  /\ MF0[1] # MF0[2]
  /\ pc[1] = "scan" /\ scanned[1] = 1 /\ Len(Program(1)) = 2
  /\ pc[2] = "emit" /\ emitted[2] = 1 /\ Len(Caps(2)) >= 2
  /\ Caps(1) # <<>>
  /\ Caps(1)[1] # Caps(2)[1]

\* The declaration records a function holds in front of its own instructions.
EmittedRecords(u) == SubSeq(MF[u][1], 1, emitted[u])

\* C17: the records emitted for a function never hold the same capability
\* or the same extension twice, and neither would the records of the
\* function extended by any one more instruction.
C17_NoDuplicateDeclarations ==
  \A u \in Units :
    /\ NoDup(EmittedRecords(u))
    /\ NoDup(Declarations(reqHandler[u]))
    /\ NoDup(Caps(u)) /\ NoDup(Exts(u))
    /\ pc[u] = "scan" =>
         \A I \in WellFormedInstrs :
           \A h1 \in addInstrRequirements(I, reqHandler[u], ST) :
             NoDup(Declarations(h1))

\* Two instructions that require the same extension, one record for it.
C17_Witness ==
  \E u \in Units :
    /\ pc[u] = "done"
    /\ Program(u) = <<OpDecorateNoSignedWrap, OpMemberDecorateNoUnsignedWrap>>
    /\ Len(EmittedRecords(u)) = Len(Caps(u)) + 1
    /\ EmittedRecords(u)[emitted[u]]
         = OpExtension("SPV_KHR_no_integer_wrap_decoration")

\* C18: no capability is reachable from itself along one or more
\* prerequisite edges of the capability table, so the capabilities a call
\* makes available each stand strictly above their own prerequisites.
C18_AcyclicDependencies ==
  /\ \A c \in Capability : c \notin TransitivePrereqs[c]
  /\ \A c \in ST.availableCaps :
       /\ TransitivePrereqs[c] \subseteq ST.availableCaps
       /\ TransitivePrereqs[c] # ST.availableCaps

\* A chain of three prerequisite edges has been followed to its end.
C18_Witness ==
  /\ enableCall # NoCall
  /\ enableCall.cap = "VariablePointers"
  /\ ST.availableCaps
       = {"VariablePointers", "VariablePointersStorageBuffer", "Shader",
          "Matrix"}
  /\ TransitivePrereqs["Matrix"] = {}

\* The capability the width rules name for a type instruction, if any.
WidthRule(I) ==
  IF I.opcode = "OpTypeInt"
  THEN CASE I.ops[2] = 64 -> {"Int64"}
         [] I.ops[2] = 16 -> {"Int16"}
         [] I.ops[2] = 8 -> {"Int8"}
         [] OTHER -> {}
  ELSE IF I.opcode = "OpTypeFloat"
  THEN CASE I.ops[2] = 64 -> {"Float64"}
         [] I.ops[2] = 16 -> {"Float16"}
         [] OTHER -> {}
  ELSE IF I.opcode = "OpTypeVector"
  THEN (IF I.ops[3] \in {8, 16} THEN {"Vector16"} ELSE {})
  ELSE {}

\* C20: an integer, float or vector type instruction requests the one
\* capability its width or component count names, or none: the accumulator
\* grows by that capability, placed first, and by its prerequisites, and by
\* nothing when no capability is named or when it is already there.
C20_WidthRules ==
  [][\A u \in Units :
       (Feeds(u)
        /\ Fed(u).opcode \in {"OpTypeInt", "OpTypeFloat", "OpTypeVector"}) =>
         LET want == WidthRule(Fed(u))
             old == reqHandler[u].caps
             new == reqHandler'[u].caps
         IN  /\ Cardinality(want) <= 1
             /\ reqHandler'[u].err = NoError
             /\ reqHandler'[u].exts = reqHandler[u].exts
             /\ IsPrefix(old, new)
             /\ Range(new) = Range(old) \cup ClosureOfSet(want)
             /\ want \subseteq Range(old) => new = old
             /\ \A c \in want \ Range(old) : new[Len(old) + 1] = c
    ]_vars

\* An 8-component vector has brought Vector16 and its prerequisite, a 32-bit
\* integer nothing more.
C20_Witness ==
  \E u \in Units :
    /\ Program(u) = <<OpTypeVector8, OpTypeInt32>>
    /\ scanned[u] = 2
    /\ Caps(u) = <<"Vector16", "Kernel">>
    /\ Err(u) = NoError

\* The capabilities the image decision table names for an image type, in
\* the order it names them: by dimensionality, then by kernel flavour.
ImageDimCaps(I) ==
  LET dim == I.ops[3]
      arrayed == I.ops[5] = 1
      multisampled == I.ops[6] = 1
      noSampler == I.ops[7] = 2
  IN  CASE dim = 0 -> <<IF noSampler THEN "Image1D" ELSE "Sampled1D">>
        [] dim = 1 -> IF multisampled /\ noSampler THEN <<"ImageMSArray">>
                      ELSE <<>>
        [] dim = 2 -> <<>>
        [] dim = 3 -> <<"Shader">>
                      \o (IF ~arrayed THEN <<>>
                          ELSE IF noSampler THEN <<"ImageCubeArray">>
                          ELSE <<"SampledCubeArray">>)
        [] dim = 4 -> <<IF noSampler THEN "ImageRect" ELSE "SampledRect">>
        [] dim = 5 -> <<IF noSampler THEN "ImageBuffer" ELSE "SampledBuffer">>
        [] dim = 6 -> <<"InputAttachment">>

ImageKernelCaps(I, s) ==
  IF ~(s.usesOpenCLEnv \/ ~s.usesLogicalAddressing) THEN <<>>
  ELSE IF Len(I.ops) >= 9 /\ I.ops[9] = 2 THEN <<"ImageReadWrite">>
  ELSE <<"ImageBasic">>

\* The accumulator after the requests for the capabilities of cs, in order.
RECURSIVE IssueCapabilities(_, _, _)
IssueCapabilities(h, cs, s) ==
  IF cs = <<>> THEN h
  ELSE IssueCapabilities(
         addRequirements(h, getCapabilityRequirement(Head(cs)), s),
         Tail(cs), s)

\* C21: an image type with at least 8 operands issues the requirement of
\* its image format, then the capabilities the decision table names for its
\* dimensionality and flags, then ImageReadWrite or ImageBasic on a kernel
\* subtarget, and nothing else.
C21_ImageDecisionTable ==
  [][\A u \in Units :
       (Feeds(u) /\ Fed(u).opcode = "OpTypeImage" /\ Len(Fed(u).ops) >= 8) =>
         LET I == Fed(u)
             afterFormat ==
               addRequirements(
                 reqHandler[u], getEnumRequirements(DEF_ImageFormat, I.ops[8]),
                 ST)
             wanted == ImageDimCaps(I) \o ImageKernelCaps(I, ST)
         IN  /\ reqHandler'[u] = IssueCapabilities(afterFormat, wanted, ST)
             /\ reqHandler'[u].err = NoError =>
                  Range(reqHandler'[u].caps)
                    = Range(reqHandler[u].caps)
                        \cup ClosureOfSet(
                               Range(wanted)
                                 \cup Range(Entry(DEF_ImageFormat,
                                                  I.ops[8]).caps))
    ]_vars

\* An arrayed cube image without sampler resolved on a logical Vulkan
\* subtarget that has ImageCubeArray: Shader and ImageCubeArray, no kernel
\* capability.
C21_Witness ==
  \E u \in Units :
    /\ Program(u) = <<Instr("OpTypeImage", <<2, 2, 3, 0, 1, 0, 2, 0>>)>>
    /\ scanned[u] = 1
    /\ Err(u) = NoError
    /\ ST.usesVulkanEnv /\ ST.usesLogicalAddressing
    /\ Range(Caps(u))
         = {"Shader", "Matrix", "ImageCubeArray", "SampledCubeArray"}

\* The position, counted from 1, of the decoration-kind operand.
KindPosition(I) ==
  IF I.opcode \in {"OpDecorate", "OpDecorateId", "OpDecorateString"} THEN 2
  ELSE 3

\* C22: a decoration-carrying instruction issues the requirement of its
\* decoration kind, and after it, exactly when the kind is BuiltIn, the
\* requirement of the built-in named by the next operand.
C22_TwoLevelDecoration ==
  [][\A u \in Units :
       (Feeds(u)
        /\ Fed(u).opcode \in {"OpDecorate", "OpDecorateId", "OpDecorateString",
                               "OpMemberDecorate", "OpMemberDecorateString"}) =>
         LET I == Fed(u)
             kind == I.ops[KindPosition(I)]
             afterKind ==
               addRequirements(reqHandler[u],
                               getEnumRequirements(DEF_Decoration, kind), ST)
         IN  reqHandler'[u] =
               IF kind = 11
               THEN addRequirements(
                      afterKind,
                      getEnumRequirements(DEF_BuiltIn,
                                          I.ops[KindPosition(I) + 1]), ST)
               ELSE afterKind
    ]_vars

\* A member decoration by a built-in has brought the capability of the
\* built-in, and a SpecId decoration followed by the literal 0 has not
\* brought the capability of built-in 0.
C22_Witness ==
  \E u \in Units :
    /\ Program(u) = <<OpMemberDecorateStringBuiltInWorkDim, OpDecorateSpecId0>>
    /\ scanned[u] = 2
    /\ Err(u) = NoError
    /\ Caps(u) = <<"Kernel">>
    /\ ST.usesOpenCLEnv

\* s is what remains of t after some leading elements.
IsSuffix(s, t) ==
  Len(s) <= Len(t) /\ SubSeq(t, Len(t) - Len(s) + 1, Len(t)) = s

\* C23: one accumulator, created empty when the pass starts on a function,
\* receives the instructions of the function one by one in program order,
\* each once, and the emission starts only when all have been fed; no step
\* removes, moves or changes an instruction the function had: a step only
\* puts declaration records in front of what the first block held.
C23_LinearScanAppendOnly ==
  [][\A u \in Units :
       /\ (pc[u] = "start" /\ pc'[u] # "start") =>
            (reqHandler'[u] = NewRequirementHandler /\ scanned'[u] = 0)
       /\ scanned'[u] \in {scanned[u], scanned[u] + 1}
       /\ scanned'[u] = scanned[u] + 1 =>
            /\ pc[u] = "scan"
            /\ scanned[u] < Len(Program(u))
            /\ reqHandler'[u] \in
                 addInstrRequirements(Program(u)[scanned[u] + 1],
                                      reqHandler[u], ST)
            /\ MF'[u] = MF[u]
       /\ (scanned'[u] = scanned[u] /\ pc[u] # "start") =>
            reqHandler'[u] = reqHandler[u]
       /\ pc'[u] \in {"emit", "done"} => scanned'[u] = Len(Program(u))
       /\ Len(MF'[u]) = Len(MF[u])
       /\ \A b \in 2..Len(MF[u]) : MF'[u][b] = MF[u][b]
       /\ \/ MF'[u][1] = MF[u][1]
          \/ \E k \in 1..Len(MF'[u][1]) :
               /\ MF[u][1] = SubSeq(MF'[u][1], 1, k - 1)
                               \o SubSeq(MF'[u][1], k + 1, Len(MF'[u][1]))
               /\ k <= Len(MF'[u][1]) - Len(MF0[u][1])
       /\ IsSuffix(MF0[u][1], MF'[u][1])
       /\ IsSuffix(Program(u), Flatten(MF'[u]))
       /\ \A k \in 1..(Len(MF'[u][1]) - Len(MF0[u][1])) :
            MF'[u][1][k].opcode \in {"OpCapability", "OpExtension"}
    ]_vars

\* A function of two different blocks has been scanned to its end and has
\* received records.
C23_Witness ==
  \E u \in Units :
    /\ pc[u] = "done"
    /\ Len(MF0[u]) = 2
    /\ MF0[u][1] # MF0[u][2]
    /\ scanned[u] = 2
    /\ Len(MF[u][1]) >= 3
    /\ MF[u][2] = MF0[u][2]

\* The capabilities reachable from S along the edges of G, S included.
RECURSIVE ReachIn(_, _)
ReachIn(G, S) ==
  LET T == S \cup UNION {Range(G[c]) : c \in S}
  IN  IF T = S THEN S ELSE ReachIn(G, T)

\* C24: a call of the closure routine comes to an end on the capability
\* table and on a table with a cycle; it has inserted no capability twice
\* and walked no prerequisite list twice, and has made available the
\* capability and all that is reachable from it.  On the capability table
\* it leaves the subtarget as enableFeatureCapability does.
C24_SingleVisit ==
  enableCall # NoCall =>
    /\ NoDup(enableCall.inserted)
    /\ NoDup(enableCall.expanded)
    /\ enableCall.inserted = enableCall.expanded
    /\ Range(enableCall.inserted) = ST.availableCaps
    /\ ST.availableCaps = ReachIn(Graphs[enableCall.graph], {enableCall.cap})
    /\ ST.Has = ST.availableCaps
    /\ enableCall.graph = "table" =>
         ST = enableFeatureCapability(Unbuilt, enableCall.cap,
                                      enableCall.visit)

\* On the table with the cycle, a capability with two prerequisites that
\* share Shader: five capabilities, Shader and Matrix once each.
C24_Witness ==
  /\ enableCall # NoCall
  /\ enableCall.graph = "cyclic"
  /\ enableCall.cap = "InputAttachmentArrayNonUniformIndexingEXT"
  /\ Len(enableCall.inserted) = 5
  /\ {"Shader", "Matrix"} \subseteq Range(enableCall.inserted)

\* C25: when the capability step of addRequirements has not failed and the
\* target version is outside the window of the requirement, every extension
\* of the requirement is added if the subtarget has them all, and the call
\* fails with UnmetExtensionRequirement if not; this is so when an
\* alternative was satisfied before the call and when the call enabled one.
C25_ExtensionsIndependent ==
  enableCall # NoCall =>
    LET req == enableCall.req
        before == enableCall.before
        after == reqHandler[1]
        ver == ST.targetSPIRVVersion
        outside == ~(/\ (req.minVer = 0 \/ ver >= req.minVer)
                     /\ (req.maxVer = 0 \/ ver <= req.maxVer))
        satisfied == \E k \in 1..Len(req.alts) :
                       Range(req.alts[k]) \subseteq Range(before.caps)
        enabled == \E k \in 1..Len(req.alts) :
                     Range(req.alts[k]) \subseteq ST.availableCaps
    IN  /\ satisfied => after.caps = before.caps
        /\ ((satisfied \/ enabled) /\ outside) =>
             IF Range(req.exts) \subseteq ST.availableExtensions
             THEN /\ after.err = NoError
                  /\ Range(after.exts)
                       = Range(before.exts) \cup Range(req.exts)
             ELSE after.err = "UnmetExtensionRequirement"
        /\ ((satisfied \/ enabled) /\ ~outside) =>
             (after.err = NoError /\ after.exts = before.exts)

\* Shader was enabled before the call, the requirement names Shader and an
\* extension, the target version is below the window: the extension is in.
C25_Witness ==
  /\ enableCall # NoCall
  /\ enableCall.before.caps = <<"Shader", "Matrix">>
  /\ enableCall.req.alts = << <<"Shader">> >>
  /\ enableCall.req.minVer = 66560
  /\ ST.targetSPIRVVersion = 66304
  /\ reqHandler[1].caps = <<"Shader", "Matrix">>
  /\ reqHandler[1].exts = <<"SPV_KHR_no_integer_wrap_decoration">>

\* C26: in a built subtarget the flag of a capability is set exactly when
\* the capability is in availableCaps, whichever flags the feature string
\* and the environment had set, and one more call of
\* updateCapabilitiesFromFeatures leaves flags and set as they are.
C26_FlagSetConsistency ==
  [][/\ ST'.built =>
          /\ \A Var \in Capability :
               (Var \in ST'.Has) <=> (Var \in ST'.availableCaps)
          /\ BaseFlags(ST') \subseteq ST'.Has
     /\ ST.built =>
          (ST'.Has = ST.Has /\ ST'.availableCaps = ST.availableCaps)
    ]_vars

\* The feature string flags ImageCubeArray, whose prerequisite comes later
\* in the table; the second call has been made.
C26_Witness ==
  /\ ST.built
  /\ enableCall # NoCall
  /\ enableCall.visit = "again"
  /\ ST.triple.features = {"ImageCubeArray"}
  /\ "SampledCubeArray" \in ST.Has
  /\ ST.Has = ST.availableCaps

\* C27: every step of a resolution leaves the capabilities and extensions
\* the accumulator held where they were, in the order they were in, and
\* only adds after them; so would any one more instruction.
C27_MonotoneAccumulation ==
  [][\A u \in Units :
       /\ IsPrefix(Caps(u), reqHandler'[u].caps)
       /\ IsPrefix(Exts(u), reqHandler'[u].exts)
       /\ pc'[u] = "scan" =>
            \A I \in WellFormedInstrs :
              \A h1 \in addInstrRequirements(I, reqHandler'[u], ST) :
                /\ IsPrefix(reqHandler'[u].caps, h1.caps)
                /\ IsPrefix(reqHandler'[u].exts, h1.exts)
    ]_vars

\* A second instruction has added capabilities after the one the first
\* instruction had brought.
C27_Witness ==
  \E u \in Units :
    /\ Program(u) = <<OpTypeInt64, OpDecorateSpecId>>
    /\ scanned[u] = 2
    /\ Err(u) = NoError
    /\ Len(Caps(u)) >= 2
    /\ Caps(u)[1] = "Int64"
    /\ ST.targetSPIRVVersion = 66816

\* The sequences that hold the elements of s in another order.
Reorderings(s) ==
  {[i \in 1..Len(s) |-> s[p[i]]] :
     p \in {q \in [1..Len(s) -> 1..Len(s)] : Range(q) = 1..Len(s)}}

\* C28: when a function whose instructions issue requirements of at most one
\* alternative has been scanned without error, every permutation of its
\* instructions resolves without error too, to the same set of capabilities
\* and the same set of extensions.
C28_OrderIndependence ==
  \A u \in Units :
    (pc[u] \in {"emit", "done"}) =>
      \A perm \in Reorderings(Program(u)) :
        LET h == ResolvedAlone(perm, Len(perm), ST)
        IN  /\ h.err = NoError
            /\ Range(h.caps) = Range(Caps(u))
            /\ Range(h.exts) = Range(Exts(u))

\* The opcodes addInstrRequirements has a case for.
DispatchedOpcodes ==
  {"OpMemoryModel", "OpEntryPoint", "OpExecutionMode", "OpExecutionModeId",
   "OpTypeMatrix", "OpTypeInt", "OpTypeFloat", "OpTypeVector",
   "OpTypePointer", "OpTypeRuntimeArray", "OpTypeOpaque", "OpTypeEvent",
   "OpTypePipe", "OpTypeReserveId", "OpTypeDeviceEvent", "OpTypeQueue",
   "OpDecorate", "OpDecorateId", "OpDecorateString", "OpMemberDecorate",
   "OpMemberDecorateString", "OpInBoundsPtrAccessChain", "OpConstantSampler",
   "OpTypeImage", "OpTypeSampler", "OpTypeForwardPointer", "OpSelect",
   "OpPhi", "OpFunctionCall", "OpPtrAccessChain", "OpLoad", "OpConstantNull"}

\* C29: an instruction of an opcode the mapper has no case for leaves the
\* accumulator as it was and raises no error, and a function made of such
\* instructions only never fails and receives no declaration record.
C29_UnhandledOpcodes ==
  [][\A u \in Units :
       /\ (Feeds(u) /\ Fed(u).opcode \notin DispatchedOpcodes) =>
            /\ reqHandler'[u] = reqHandler[u]
            /\ pc'[u] = "scan"
       /\ (\A i \in 1..Len(Program(u)) :
             Program(u)[i].opcode \notin DispatchedOpcodes) =>
            /\ pc'[u] # "failed"
            /\ reqHandler'[u] = NewRequirementHandler
            /\ emitted'[u] = 0
            /\ MF'[u] = MF0[u]
    ]_vars

\* A store through a pointer and a return, resolved under logical
\* addressing: the function is as it was.
C29_Witness ==
  \E u \in Units :
    /\ Program(u) = <<OpStorePointer, OpReturn>>
    /\ pc[u] = "done"
    /\ ST.usesLogicalAddressing
    /\ Caps(u) = <<>> /\ Exts(u) = <<>>
    /\ MF[u] = MF0[u]

\* C30: in a built subtarget isKernel() is "OpenCL environment or not
\* logical addressing" and isShader() is "Vulkan environment or logical
\* addressing", as the triple it was built for has them; one of the two
\* always holds, and both hold for OpenCL with logical addressing.
C30_DerivedPredicates ==
  ST.built =>
    /\ isKernel(ST) <=> (ST.triple.env = "OpenCL" \/ ~ST.triple.logical)
    /\ isShader(ST) <=> (ST.triple.env = "Vulkan" \/ ST.triple.logical)
    /\ isKernel(ST) \/ isShader(ST)
    /\ (ST.triple.env = "OpenCL" /\ ST.triple.logical) =>
         (isKernel(ST) /\ isShader(ST))
    /\ \A flags \in SUBSET {"Kernel", "Shader"} :
         /\ isKernel([ST EXCEPT !.Has = flags, !.availableCaps = flags])
              = isKernel(ST)
         /\ isShader([ST EXCEPT !.Has = flags, !.availableCaps = flags])
              = isShader(ST)

\* A subtarget built for OpenCL with logical addressing is both.
C30_Witness ==
  /\ ST.built
  /\ ST.usesOpenCLEnv
  /\ ST.usesLogicalAddressing
  /\ isKernel(ST)
  /\ isShader(ST)
  /\ "Shader" \notin ST.availableCaps

====
